---- MODULE Spec2Model ----
(***************************************************************************)
(* Group call signalling of hydrogen-web: GroupCall (src/unnamed/part_001) *)
(* and Member (src/src/matrix/calls/group/Member.ts).                      *)
(*                                                                         *)
(* Every synchronous handler of the code is one action.  The handlers call *)
(* each other (updateMembership -> connect -> PeerCall -> emitUpdate ->    *)
(* connect ...), so the operators below pass the whole mutable state of    *)
(* the GroupCall along as one record `c` and return the changed record;    *)
(* an action then installs the record it ends with.  An `await` of the     *)
(* code splits a method into several actions with a task position between  *)
(* them.                                                                   *)
(*                                                                         *)
(* PeerCall.ts is not among the sources; what a PeerCall does is taken     *)
(* from the state table of the specification (section 4.B) and reduced to  *)
(* the call state and the call id.                                         *)
(***************************************************************************)
EXTENDS Integers, Sequences, FiniteSets, TLC

\* ------------------------------------------------------------------ bounds

\* Each specification bounds its environment by its own numbers: the join()
\* calls that pass the guard of GroupCall.join, the PeerCalls this side
\* creates with makeId("c"), the device messages handed to
\* GroupCall.handleDeviceMessage.
LifeMaxJoins == 2
LifeMaxCallIds == 3
MemberMaxJoins == 1
MemberMaxCallIds == 5
MemberMaxMsgs == 1
RouteMaxMsgs == 3
\* cap of Member.retryCount (the code has none)
MaxRetryCount == 5
\* cap of the count of PeerCalls a Member has lost its reference to
MaxLeaked == 2
\* join() calls in the specification of leave and the homeserver
LeaveMaxJoins == 2
\* device messages in the specification of an unbounded buffer
BufferMaxMsgs == 66
KeyMaxLen == 2
CandidatesMaxMsgs == 3
KeyMaxPairs == 2
SummaryMaxSyncs == 3
ConnectMaxJoins == 2
ConnectMaxCallIds == 3

\* ------------------------------------------------------------- identifiers

\* Strings are sequences of code units; JavaScript compares them code unit
\* by code unit, a proper prefix being the smaller string.
RECURSIVE StrLess(_, _)
StrLess(a, b) ==
    IF b = <<>> THEN FALSE
    ELSE IF a = <<>> THEN TRUE
    ELSE IF Head(a) # Head(b) THEN Head(a) < Head(b)
    ELSE StrLess(Tail(a), Tail(b))

StrGreater(a, b) == StrLess(b, a)

\* the ids the two-peer specification draws from
UserIds == {<<1>>, <<1, 1>>, <<2>>}
DeviceIds == {<<1>>, <<1, 2>>, <<2>>}

\* options.ownUserId, options.ownDeviceId, options.sessionId, options.confId
OwnUserId == <<1, 1>>
OwnDeviceId == <<1, 2>>
OwnSessionId == "O2"
StaleOwnSessionId == "O1"
ConfId == "conf"

\* a device of the own user with a greater device id, and a user with a
\* smaller user id
KeySameUser == <<OwnUserId, <<2>>>>
KeyOtherUser == <<<<1>>, <<1>>>>
RemoteKeys == {KeySameUser, KeyOtherUser}
OwnKey == <<OwnUserId, OwnDeviceId>>
SessionIds == {"S1", "S2"}

\* (user_id, device_id) pairs in lexicographic order
KeyLess(a, b) == StrLess(a[1], b[1]) \/ (a[1] = b[1] /\ StrLess(a[2], b[2]))

\* ----------------------------------------------------------------- Member

ErrorCodesWithoutRetry ==
    {"user_hangup", "answered_elsewhere", "replaced", "user_busy", "transferred", "new_session"}
RetryableCodes == {"ice_failed", "invite_timeout"}
\* PeerCall.hangupReason is undefined when the call was closed without a reason
NoReason == "undefined"
HangupReasons == ErrorCodesWithoutRetry \cup RetryableCodes

NoPeerCall == [callId |-> 0, state |-> "none"]
LiveCallStates == {"CreateOffer", "InviteSent", "CreateAnswer", "Connecting", "Connected"}

\* new Member(...): no PeerCall, no local media, retryCount 0.  leaked counts
\* the PeerCalls the Member replaced without disposing them, retries the times
\* emitUpdate ran connect again, rotatedFrom the session id of the Member this
\* one replaced, if device messages of the behaviour can carry that session id
\* ("none" otherwise); none of them is a field of the class.
NewMember(sessionId) ==
    [sessionId |-> sessionId, peerCall |-> NoPeerCall, localMedia |-> 0,
     retryCount |-> 0, leaked |-> 0, retries |-> 0, rotatedFrom |-> "none"]

\* an entry of the record of one step: a PeerCall of the Member `key` reached
\* Ended with `reason` (retryCount went from `before` to `after`), or
\* Member.connect ran (reason says whether emitUpdate ran it as a retry;
\* callId is the call id of the PeerCall it created, 0 if it created none), or
\* updateMembership found the own device in m.devices
LogEnded(k, reason, callId, before, after) ==
    [kind |-> "ended", key |-> k, reason |-> reason, callId |-> callId,
     before |-> before, after |-> after]
LogOwnSeen(k) ==
    [kind |-> "own", key |-> k, reason |-> "seen", callId |-> 0, before |-> 0, after |-> 0]
LogConnect(k, isRetry, callId, count) ==
    [kind |-> "connect", key |-> k, reason |-> IF isRetry THEN "retry" ELSE "first",
     callId |-> callId, before |-> count, after |-> count]

Min(a, b) == IF a < b THEN a ELSE b

\* a variant of the decision that makes the greater side the initiator
ShouldInitiateCallGreaterSide(ownUserId, ownDeviceId, userId, deviceId) ==
    IF userId = ownUserId
    THEN StrLess(deviceId, ownDeviceId)
    ELSE StrLess(userId, ownUserId)

\* a variant of the decision that compares device ids whatever the users are
ShouldInitiateCallByDevice(ownUserId, ownDeviceId, userId, deviceId) ==
    StrGreater(deviceId, ownDeviceId)

\* Member.connect: which side creates the PeerCall
ShouldInitiateCall(ownUserId, ownDeviceId, userId, deviceId) ==
    IF userId = ownUserId
    THEN StrGreater(deviceId, ownDeviceId)
    ELSE StrGreater(userId, ownUserId)

\* Member.connect on the Member record m of (userId, deviceId); callId is
\* what makeId("c") returns.  The assignment to this.peerCall does not look
\* at the PeerCall it replaces: a replaced live PeerCall stays undisposed.
Connect(m, ownUserId, ownDeviceId, userId, deviceId, localMedia, callId) ==
    IF ShouldInitiateCall(ownUserId, ownDeviceId, userId, deviceId)
    THEN [m EXCEPT !.localMedia = localMedia,
                   !.peerCall = [callId |-> callId, state |-> "CreateOffer"],
                   !.leaked = IF m.peerCall.state # "none" THEN Min(@ + 1, MaxLeaked) ELSE @]
    ELSE [m EXCEPT !.localMedia = localMedia]

\* Member.connect inside the GroupCall state c
MemberConnect(c, k, localMedia, isRetry) ==
    LET m == c.members[k]
        init == ShouldInitiateCall(OwnUserId, OwnDeviceId, k[1], k[2])
    IN [c EXCEPT !.members[k] = Connect(m, OwnUserId, OwnDeviceId, k[1], k[2], localMedia, c.nextCallId),
                 !.nextCallId = IF init THEN @ + 1 ELSE @,
                 !.log = Append(@, LogConnect(k, isRetry, IF init THEN c.nextCallId ELSE 0,
                                              m.retryCount))]

\* a variant of the envelope that keeps the session id of the first Member of
\* the device as destination
SendSignallingMessageFirstDest(c, k, type, callId) ==
    [c EXCEPT !.sent = Append(@,
        [toUser |-> k[1], toDevice |-> k[2], type |-> type, call_id |-> callId,
         conf_id |-> ConfId, device_id |-> OwnDeviceId, party_id |-> OwnDeviceId,
         sender_session_id |-> OwnSessionId,
         dest_session_id |-> IF c.members[k].rotatedFrom # "none"
                             THEN c.members[k].rotatedFrom
                             ELSE c.members[k].sessionId])]

\* Member.sendSignallingMessage: the envelope added to a PeerCall's message
SendSignallingMessage(c, k, type, callId) ==
    [c EXCEPT !.sent = Append(@,
        [toUser |-> k[1], toDevice |-> k[2], type |-> type, call_id |-> callId,
         conf_id |-> ConfId, device_id |-> OwnDeviceId, party_id |-> OwnDeviceId,
         sender_session_id |-> OwnSessionId,
         dest_session_id |-> c.members[k].sessionId])]

\* variants of the Ended branch of Member.emitUpdate: the PeerCall is cleared
\* iff clear, the reasons in codes are not counted, and connect runs again
\* while the count is at most limit
EmitUpdateEndedVariant(c, k, hangupReason, clear, codes, limit) ==
    LET m == c.members[k]
        retry == hangupReason # NoReason /\ hangupReason \notin codes
        count == IF retry THEN m.retryCount + 1 ELSE m.retryCount
        c1 == [c EXCEPT !.members[k] = [m EXCEPT !.peerCall = IF clear THEN NoPeerCall ELSE @,
                                                 !.retryCount = count],
                        !.log = Append(@, LogEnded(k, hangupReason, m.peerCall.callId,
                                                   m.retryCount, count))]
    IN IF retry /\ count <= limit
       THEN MemberConnect([c1 EXCEPT !.members[k].retries = @ + 1], k, m.localMedia, TRUE)
       ELSE c1

\* connect runs again while the count is at most 4
EmitUpdateEndedFourRetries(c, k, hangupReason, isCurrent) ==
    EmitUpdateEndedVariant(c, k, hangupReason, TRUE, ErrorCodesWithoutRetry, 4)

\* connect runs again while the count is less than 3
EmitUpdateEndedTwoRetries(c, k, hangupReason, isCurrent) ==
    EmitUpdateEndedVariant(c, k, hangupReason, TRUE, ErrorCodesWithoutRetry, 2)

\* a glare loss is retried like a failure
EmitUpdateEndedRetriesReplaced(c, k, hangupReason, isCurrent) ==
    EmitUpdateEndedVariant(c, k, hangupReason, TRUE, ErrorCodesWithoutRetry \ {"replaced"}, 3)

\* the ended PeerCall stays in this.peerCall
EmitUpdateEndedKeepsPeerCall(c, k, hangupReason, isCurrent) ==
    EmitUpdateEndedVariant(c, k, hangupReason, FALSE, ErrorCodesWithoutRetry, 3)

\* Member.emitUpdate for a PeerCall that reached Ended with hangupReason;
\* isCurrent: the PeerCall is the one this.peerCall refers to (a PeerCall
\* the Member no longer refers to still reports to the same callback)
EmitUpdateEnded(c, k, hangupReason, isCurrent) ==
    LET m == c.members[k]
        \* peerCall.dispose(); this.peerCall = undefined
        lost == IF isCurrent THEN m.leaked
                ELSE Min((m.leaked - 1) + (IF m.peerCall.state # "none" THEN 1 ELSE 0), MaxLeaked)
        retry == hangupReason # NoReason /\ hangupReason \notin ErrorCodesWithoutRetry
        count == IF retry THEN m.retryCount + 1 ELSE m.retryCount
        c1 == [c EXCEPT !.members[k] = [m EXCEPT !.peerCall = NoPeerCall, !.leaked = lost,
                                                 !.retryCount = count],
                        !.log = Append(@, LogEnded(k, hangupReason,
                                                   IF isCurrent THEN m.peerCall.callId ELSE 0,
                                                   m.retryCount, count))]
    IN IF retry /\ count <= 3
       THEN MemberConnect([c1 EXCEPT !.members[k].retries = @ + 1], k, m.localMedia, TRUE)
       ELSE c1

\* Member.emitUpdate for a PeerCall that reached Ringing: peerCall.answer
EmitUpdateRinging(c, k) ==
    [c EXCEPT !.members[k].peerCall.state = "CreateAnswer"]

\* Member.emitUpdate
EmitUpdate(c, k, callState, hangupReason, isCurrent) ==
    IF callState = "Ringing" THEN EmitUpdateRinging(c, k)
    ELSE IF callState = "Ended" THEN EmitUpdateEnded(c, k, hangupReason, isCurrent)
    ELSE c

\* PeerCall: the Member's current PeerCall reaches Ended with hangupReason
\* and reports the change of state to the Member
PeerCallTerminate(c, k, hangupReason) ==
    EmitUpdate([c EXCEPT !.members[k].peerCall.state = "Ended"], k, "Ended", hangupReason, TRUE)

\* PeerCall.hangup(reason): emits Hangup, reaches Ended, reports it
PeerCallHangup(c, k, reason) ==
    PeerCallTerminate(SendSignallingMessage(c, k, "m.call.hangup", c.members[k].peerCall.callId),
                      k, reason)

\* PeerCall.close(undefined): reaches Ended without a message or a reason
PeerCallClose(c, k) == PeerCallTerminate(c, k, NoReason)

\* Member.disconnect
MemberDisconnect(c, k, hangup) ==
    LET c1 == IF c.members[k].peerCall.state = "none" THEN c
              ELSE IF hangup THEN PeerCallHangup(c, k, "user_hangup")
              ELSE PeerCallClose(c, k)
        media == c1.members[k].localMedia
    IN [c1 EXCEPT !.members[k].peerCall = NoPeerCall,
                  !.members[k].localMedia = 0,
                  !.disposed = IF media # 0 THEN @ \cup {media} ELSE @]

\* ------------------------------------------------- PeerCall (specification)

\* PeerCall.handleIncomingSignallingMessage, the dispatch table of section
\* 4.B: an Invite makes a Fledgling call Ringing (reported to the Member,
\* which answers); an Invite for a call that is itself inviting is glare, and
\* the lower call_id wins; an Answer makes InviteSent Connecting; a Hangup or
\* Reject ends the call with the reason it carries.
PeerCallHandleIncomingSignallingMessage(c, k, msg) ==
    LET call == c.members[k].peerCall IN
    CASE msg.type = "m.call.invite" /\ call.state = "Fledgling" ->
            EmitUpdate([c EXCEPT !.members[k].peerCall.state = "Ringing"],
                       k, "Ringing", NoReason, TRUE)
      [] msg.type = "m.call.invite" /\ call.state \in {"CreateOffer", "InviteSent"}
            /\ msg.call_id < call.callId ->
            PeerCallTerminate(c, k, "replaced")
      [] msg.type = "m.call.answer" /\ call.state = "InviteSent" ->
            [c EXCEPT !.members[k].peerCall.state = "Connecting"]
      [] msg.type = "m.call.hangup" ->
            PeerCallTerminate(c, k, msg.reason)
      [] OTHER -> c

\* ------------------------------------------------- Member (device messages)

\* a variant that does not look at dest_session_id
MemberHandleDeviceMessageAnyDest(c, k, msg) ==
    LET c1 == IF msg.type = "m.call.invite" /\ c.members[k].peerCall.state = "none"
              THEN [c EXCEPT !.members[k].peerCall =
                                 [callId |-> msg.call_id, state |-> "Fledgling"]]
              ELSE c
    IN IF c1.members[k].peerCall.state # "none"
       THEN PeerCallHandleIncomingSignallingMessage(c1, k, msg)
       ELSE c1

\* Member.handleDeviceMessage
MemberHandleDeviceMessage(c, k, msg) ==
    IF msg.dest_session_id # OwnSessionId THEN c
    ELSE LET c1 == IF msg.type = "m.call.invite" /\ c.members[k].peerCall.state = "none"
                   THEN [c EXCEPT !.members[k].peerCall =
                                      [callId |-> msg.call_id, state |-> "Fledgling"]]
                   ELSE c
         IN IF c1.members[k].peerCall.state # "none"
            THEN PeerCallHandleIncomingSignallingMessage(c1, k, msg)
            ELSE c1

\* --------------------------------------------------------------- GroupCall

\* member.sessionId, read by GroupCall (the session_id of the Member's
\* callDeviceMembership)
SessionIdOf(c, k) == c.members[k].sessionId

\* the record of a message that reached a Member: its number, its session,
\* and whether it came from the buffer
Delivery(msg, flushed) ==
    [id |-> msg.id, sender_session_id |-> msg.sender_session_id, flushed |-> flushed]

\* the call of member.handleDeviceMessage in GroupCall, with the record of
\* what reached the Member
DeliverToMember(c, k, msg) ==
    MemberHandleDeviceMessage(
        [c EXCEPT !.delivered[k] =
            Append(@, Delivery(msg, \E i \in 1..Len(c.buffered[k]) : c.buffered[k][i] = msg))],
        k, msg)

\* the loop of flushPendingIncomingDeviceMessages over the Set, in insertion
\* order: msgs are the messages not visited yet
RECURSIVE FlushLoop(_, _, _)
FlushLoop(c, k, msgs) ==
    IF msgs = <<>> THEN c
    ELSE LET msg == Head(msgs) IN
         IF msg.sender_session_id = SessionIdOf(c, k)
         THEN FlushLoop([DeliverToMember(c, k, msg) EXCEPT
                            !.buffered[k] = SelectSeq(@, LAMBDA x: x.id # msg.id)],
                        k, Tail(msgs))
         ELSE FlushLoop(c, k, Tail(msgs))

\* the loop of a flush that leaves the messages it delivers in the Set
RECURSIVE FlushLoopKeeps(_, _, _)
FlushLoopKeeps(c, k, msgs) ==
    IF msgs = <<>> THEN c
    ELSE LET msg == Head(msgs) IN
         IF msg.sender_session_id = SessionIdOf(c, k)
         THEN FlushLoopKeeps(DeliverToMember(c, k, msg), k, Tail(msgs))
         ELSE FlushLoopKeeps(c, k, Tail(msgs))

\* a variant of the flush that does not delete what it delivered
FlushPendingKeeps(c, k) == FlushLoopKeeps(c, k, c.buffered[k])

\* a sequence in reverse order
RECURSIVE Reverse(_)
Reverse(q) ==
    IF q = <<>> THEN <<>> ELSE Append(Reverse(Tail(q)), Head(q))

\* a variant of the flush that visits the newest message first
FlushPendingNewestFirst(c, k) == FlushLoop(c, k, Reverse(c.buffered[k]))

\* GroupCall.flushPendingIncomingDeviceMessages
FlushPendingIncomingDeviceMessages(c, k) == FlushLoop(c, k, c.buffered[k])

\* GroupCall.connectToMember
ConnectToMember(c, k, localMedia) == MemberConnect(c, k, localMedia, FALSE)

\* the first key of a set of member keys
FirstKey(keys) == CHOOSE k \in keys : \A j \in keys : j = k \/ KeyLess(k, j)

\* the loop of GroupCall.join over this._members
RECURSIVE ConnectAll(_, _, _)
ConnectAll(c, keys, localMedia) ==
    IF keys = {} THEN c
    ELSE LET k == FirstKey(keys)
         IN ConnectAll(ConnectToMember(c, k, localMedia), keys \ {k}, localMedia)

\* the loop of GroupCall.disconnect over this._members
RECURSIVE DisconnectAll(_, _)
DisconnectAll(c, keys) ==
    IF keys = {} THEN c
    ELSE LET k == FirstKey(keys)
         IN DisconnectAll(MemberDisconnect(c, k, TRUE), keys \ {k})

\* GroupCall.disconnect; the local media of JoinedData i is media i
Disconnect(c) ==
    LET c1 == IF c.state = "joined"
              THEN [DisconnectAll(c, DOMAIN c.members) EXCEPT !.state = "created"]
              ELSE c
    IN [c1 EXCEPT !.disposed = IF c1.joinedData # 0 THEN @ \cup {c1.joinedData} ELSE @,
                  !.joinedData = 0]

\* this._members without key k
WithoutMember(members, k) == [x \in DOMAIN members \ {k} |-> members[x]]

\* a removal that takes the Member out of the map and leaves its PeerCall and
\* its media as they are
RemoveMemberDeviceFromMapOnly(c, k) ==
    IF k \in DOMAIN c.members
    THEN [c EXCEPT !.members = WithoutMember(c.members, k)]
    ELSE c

\* GroupCall.removeMemberDevice
RemoveMemberDevice(c, k) ==
    IF k \in DOMAIN c.members
    THEN LET c1 == MemberDisconnect(c, k, FALSE)
         IN [c1 EXCEPT !.members = WithoutMember(c1.members, k)]
    ELSE c

\* variants of the loop body: with always, a Member is replaced also when its
\* session id is the event's; with inPlace, a Member whose session id differs
\* gets the new session id and is kept; with anyState, the own device makes
\* the call Joined whatever its state is
UpdateDeviceMembershipVariant(c, userId, device, always, inPlace, anyState) ==
    LET k == <<userId, device.device_id>> IN
    IF userId = OwnUserId /\ device.device_id = OwnDeviceId
    THEN LET c1 == [c EXCEPT !.log = Append(@, LogOwnSeen(k))]
         IN IF c.state = "joining" \/ anyState THEN [c1 EXCEPT !.state = "joined"] ELSE c1
    ELSE LET exists == k \in DOMAIN c.members
             sessionIdChanged == exists /\ SessionIdOf(c, k) # device.session_id
             c1 == IF exists /\ ~sessionIdChanged /\ ~always THEN c
                   ELSE IF exists /\ inPlace
                   THEN [c EXCEPT !.members[k].sessionId = device.session_id]
                   ELSE LET c2 == IF exists
                                  THEN LET d == MemberDisconnect(c, k, FALSE)
                                       IN [d EXCEPT !.members = WithoutMember(d.members, k)]
                                  ELSE c
                            c3 == [c2 EXCEPT !.members = @ @@
                                      (k :> NewMember(device.session_id))]
                        IN IF c3.joinedData # 0
                           THEN ConnectToMember(c3, k, c3.joinedData)
                           ELSE c3
         IN FlushPendingIncomingDeviceMessages(c1, k)

\* a Member is replaced by every membership event that lists its device
UpdateDeviceMembershipAlwaysNew(c, userId, device) ==
    UpdateDeviceMembershipVariant(c, userId, device, TRUE, FALSE, FALSE)

\* a Member whose session id changed is kept, with the new session id
UpdateDeviceMembershipInPlace(c, userId, device) ==
    UpdateDeviceMembershipVariant(c, userId, device, FALSE, TRUE, FALSE)

\* the own device in m.devices makes the call Joined in every state
UpdateDeviceMembershipJoinsAnyState(c, userId, device) ==
    UpdateDeviceMembershipVariant(c, userId, device, FALSE, FALSE, TRUE)

\* a Member is made or kept as the event says, and the buffer is left for a
\* later call to flush
UpdateDeviceMembershipWithoutFlush(c, userId, device) ==
    LET k == <<userId, device.device_id>> IN
    IF userId = OwnUserId /\ device.device_id = OwnDeviceId
    THEN LET c1 == [c EXCEPT !.log = Append(@, LogOwnSeen(k))]
         IN IF c.state = "joining" THEN [c1 EXCEPT !.state = "joined"] ELSE c1
    ELSE LET exists == k \in DOMAIN c.members
             sessionIdChanged == exists /\ SessionIdOf(c, k) # device.session_id
         IN IF exists /\ ~sessionIdChanged THEN c
            ELSE LET c2 == IF exists
                           THEN LET d == MemberDisconnect(c, k, FALSE)
                                IN [d EXCEPT !.members = WithoutMember(d.members, k)]
                           ELSE c
                     c3 == [c2 EXCEPT !.members = @ @@ (k :> NewMember(device.session_id))]
                 IN IF c3.joinedData # 0
                    THEN ConnectToMember(c3, k, c3.joinedData)
                    ELSE c3

\* a new Member is connected when the state is Joined, whatever joinedData is
UpdateDeviceMembershipConnectsWhenJoined(c, userId, device) ==
    LET k == <<userId, device.device_id>> IN
    IF userId = OwnUserId /\ device.device_id = OwnDeviceId
    THEN LET c1 == [c EXCEPT !.log = Append(@, LogOwnSeen(k))]
         IN IF c.state = "joining" THEN [c1 EXCEPT !.state = "joined"] ELSE c1
    ELSE LET exists == k \in DOMAIN c.members
             sessionIdChanged == exists /\ SessionIdOf(c, k) # device.session_id
             c1 == IF exists /\ ~sessionIdChanged THEN c
                   ELSE LET c2 == IF exists
                                  THEN LET d == MemberDisconnect(c, k, FALSE)
                                       IN [d EXCEPT !.members = WithoutMember(d.members, k)]
                                  ELSE c
                            c3 == [c2 EXCEPT !.members = @ @@
                                      (k :> NewMember(device.session_id))]
                        IN IF c3.state = "joined"
                           THEN ConnectToMember(c3, k, c3.joinedData)
                           ELSE c3
         IN FlushPendingIncomingDeviceMessages(c1, k)

\* the body of the loop of GroupCall.updateMembership for one entry of
\* m.devices
UpdateDeviceMembership(c, userId, device) ==
    LET k == <<userId, device.device_id>> IN
    IF userId = OwnUserId /\ device.device_id = OwnDeviceId
    THEN LET c1 == [c EXCEPT !.log = Append(@, LogOwnSeen(k))]
         IN IF c.state = "joining" THEN [c1 EXCEPT !.state = "joined"] ELSE c1
    ELSE LET exists == k \in DOMAIN c.members
             sessionIdChanged == exists /\ SessionIdOf(c, k) # device.session_id
             c1 == IF exists /\ ~sessionIdChanged THEN c
                   ELSE LET c2 == IF exists
                                  THEN LET d == MemberDisconnect(c, k, FALSE)
                                       IN [d EXCEPT !.members = WithoutMember(d.members, k)]
                                  ELSE c
                            c3 == [c2 EXCEPT !.members = @ @@
                                      (k :> [NewMember(device.session_id) EXCEPT
                                                !.rotatedFrom =
                                                    IF exists /\ SessionIdOf(c, k) \in c.sessions
                                                    THEN SessionIdOf(c, k) ELSE "none"])]
                        IN IF c3.joinedData # 0
                           THEN ConnectToMember(c3, k, c3.joinedData)
                           ELSE c3
         IN FlushPendingIncomingDeviceMessages(c1, k)

RECURSIVE UpdateDevices(_, _, _)
UpdateDevices(c, userId, devices) ==
    IF devices = <<>> THEN c
    ELSE UpdateDevices(UpdateDeviceMembership(c, userId, Head(devices)), userId, Tail(devices))

RECURSIVE RemoveDevices(_, _)
RemoveDevices(c, keys) ==
    IF keys = {} THEN c
    ELSE LET k == FirstKey(keys) IN RemoveDevices(RemoveMemberDevice(c, k), keys \ {k})

\* GroupCall.getDeviceIdsForUserId, as member keys
KeysForUserId(c, userId) == {k \in DOMAIN c.members : k[1] = userId}

\* GroupCall.removeOwnDevice
RemoveOwnDevice(c) == Disconnect(c)

\* GroupCall.updateMembership
UpdateMembershipOp(c, userId, devices) ==
    LET previous == KeysForUserId(c, userId)
        newDeviceIds == {devices[i].device_id : i \in 1..Len(devices)}
        c1 == UpdateDevices(c, userId, devices)
        c2 == RemoveDevices(c1, {k \in previous : k[2] \notin newDeviceIds})
    IN IF userId = OwnUserId /\ OwnDeviceId \notin newDeviceIds
       THEN RemoveOwnDevice(c2)
       ELSE c2

\* GroupCall.removeMembership
RemoveMembershipOp(c, userId) ==
    LET c1 == RemoveDevices(c, KeysForUserId(c, userId))
    IN IF userId = OwnUserId THEN RemoveOwnDevice(c1) ELSE c1

\* a variant that delivers to the Member of the key whatever its session is
HandleDeviceMessageOpAnySession(c, msg, k) ==
    IF k \in DOMAIN c.members
    THEN DeliverToMember(c, k, msg)
    ELSE [c EXCEPT !.buffered[k] = Append(@, msg)]

\* GroupCall.handleDeviceMessage
HandleDeviceMessageOp(c, msg, k) ==
    IF k \in DOMAIN c.members /\ msg.sender_session_id = SessionIdOf(c, k)
    THEN DeliverToMember(c, k, msg)
    ELSE [c EXCEPT !.buffered[k] = Append(@, msg)]

\* ------------------------------------------------------------------- state

VARIABLES
    state,        \* GroupCall._state
    joinedData,   \* GroupCall.joinedData: 0 (undefined) or the join() call that made it
    members,      \* GroupCall._members: member key -> Member
    buffered,     \* GroupCall.bufferedDeviceMessages: member key -> messages in insertion order
    intent,       \* callContent["m.intent"]
    disposed,     \* the local media objects that have been disposed
    ownInStorage, \* the stored own m.call.member event lists the own device for this call
    ownOnServer,  \* the homeserver's own m.call.member state lists the own device:
                  \* "no", "yes", or "unknown" after a request that failed
    nextCallId,   \* the next value of makeId("c")
    nextMsgId,    \* the number of the next device message
    createTask,   \* position of create(): "none", "send" (awaiting sendState), "done"
    joinTask,     \* position of each join(): "none", "turn", "send", "done"
    leaveTask,    \* position of leave(): "idle", "read", "send", "terminate"
    delivered,    \* member key -> the messages passed to Member.handleDeviceMessage (number, session, from the buffer)
    afterLeave,   \* a leave() has completed and no join() has begun since
    sent,         \* the messages handed to hsApi.sendToDevice by the last step
    log,          \* the PeerCall endings and Member.connect calls of the last step, in order
    received,     \* the device message the last step was called with, if any
    env,          \* what the environment of this behaviour may do (fixed by Init)
    peerA,        \* two-peer specification: (user_id, device_id) of side A
    peerB,        \* two-peer specification: (user_id, device_id) of side B
    legA,         \* two-peer specification: A's Member for B, once connect() has run
    legB,         \* two-peer specification: B's Member for A, once connect() has run
    keyed,        \* member-key specification: member key -> the (user_id, device_id)
                  \* pairs getMemberKey returned it for
    tracker,      \* DeviceTracker specifications: the room, the stored user and device
                  \* identities, and the last operation with what it was given and returned
    summary,      \* RoomSummary specification: this._data, and what the last writeSync
                  \* returned and wrote
    ownIndex      \* device-index specification: GroupCall._deviceIndex, the stored own
                  \* m.devices list, and the list last built or observed

pairVars == <<peerA, peerB, legA, legB>>
sideVars == <<pairVars, keyed, tracker, summary, ownIndex>>
vars == <<state, joinedData, members, buffered, intent, disposed, ownInStorage, ownOnServer,
          nextCallId, nextMsgId, createTask, joinTask, leaveTask, delivered,
          afterLeave, sent, log, received, env, peerA, peerB, legA, legB, keyed,
          tracker, summary, ownIndex>>

Intents == {"m.ring", "m.prompt"}

\* the state the handlers work on, at the start of a step
Cur ==
    [state |-> state, joinedData |-> joinedData, members |-> members,
     buffered |-> buffered, delivered |-> delivered, disposed |-> disposed,
     nextCallId |-> nextCallId, sent |-> <<>>, log |-> <<>>, sessions |-> env.sessions]

\* install the state a handler ended with; the counters stay within bounds
Install(c) ==
    /\ c.nextCallId <= env.calls + 1
    /\ \A k \in DOMAIN c.members : c.members[k].retryCount <= MaxRetryCount
    /\ state' = c.state
    /\ joinedData' = c.joinedData
    /\ members' = c.members
    /\ buffered' = c.buffered
    /\ delivered' = c.delivered
    /\ disposed' = c.disposed
    /\ nextCallId' = c.nextCallId
    /\ sent' = c.sent
    /\ log' = c.log

\* the homeserver's view of the own membership after a member state event
\* request, in the behaviours that follow it
ServerAfter(listed) == IF env.server THEN listed ELSE ownOnServer

NoLeg == [connected |-> FALSE, member |-> NewMember("S1")]

\* new GroupCall(id, newCall, callContent, roomId, options)
NewGroupCall(newCall) ==
    /\ state = (IF newCall THEN "fledgling" ELSE "created")
    /\ joinedData = 0
    /\ members = [k \in {} |-> NewMember("S1")]
    /\ buffered = [k \in RemoteKeys |-> <<>>]
    /\ disposed = {}
    /\ ownInStorage = FALSE
    /\ ownOnServer = "no"
    /\ nextCallId = 1
    /\ nextMsgId = 1
    /\ createTask = "none"
    /\ joinTask = [i \in 1..env.joins |-> "none"]
    /\ leaveTask = "idle"
    /\ delivered = [k \in RemoteKeys |-> <<>>]
    /\ afterLeave = FALSE
    /\ sent = <<>>
    /\ log = <<>>
    /\ received = <<>>

NoPair ==
    /\ peerA = OwnKey
    /\ peerB = OwnKey
    /\ legA = NoLeg
    /\ legB = NoLeg

\* no member key has been computed
NoKeys == keyed = <<>>

\* no DeviceTracker and no RoomSummary
NoTracker == tracker = [op |-> "none"]
NoSummary == summary = [op |-> "none"]
NoIndex == ownIndex = [op |-> "none"]

NoSide == NoPair /\ NoKeys /\ NoTracker /\ NoSummary /\ NoIndex

\* ----------------------------------------------------------------- actions

\* GroupCall.create up to its await of the state event request
Create ==
    /\ state = "fledgling"
    /\ createTask = "none"
    /\ createTask' = "send"
    /\ Install([Cur EXCEPT !.state = "creating"])
    /\ UNCHANGED <<intent, ownInStorage, nextMsgId, joinTask, leaveTask, afterLeave, env>>
    /\ received' = <<>>
    /\ UNCHANGED ownOnServer
    /\ UNCHANGED sideVars

\* GroupCall.create after the request's response
CreateDone ==
    /\ createTask = "send"
    /\ createTask' = "done"
    /\ Install([Cur EXCEPT !.state = "created"])
    /\ UNCHANGED <<intent, ownInStorage, nextMsgId, joinTask, leaveTask, afterLeave, env>>
    /\ received' = <<>>
    /\ UNCHANGED ownOnServer
    /\ UNCHANGED sideVars

\* GroupCall.create when the request fails
CreateFails ==
    /\ createTask = "send"
    /\ createTask' = "done"
    /\ Install(Cur)
    /\ UNCHANGED <<intent, ownInStorage, nextMsgId, joinTask, leaveTask, afterLeave, env>>
    /\ received' = <<>>
    /\ UNCHANGED ownOnServer
    /\ UNCHANGED sideVars

\* GroupCall.updateCallEvent
UpdateCallEvent ==
    /\ \E i \in Intents : intent' = i
    /\ Install([Cur EXCEPT !.state = IF @ = "creating" THEN "created" ELSE @])
    /\ UNCHANGED <<ownInStorage, nextMsgId, createTask, joinTask, leaveTask, afterLeave, env>>
    /\ received' = <<>>
    /\ UNCHANGED ownOnServer
    /\ UNCHANGED sideVars

\* GroupCall.join up to its await of the TURN settings
Join ==
    /\ state = "created"
    /\ joinedData = 0
    /\ \E i \in 1..env.joins :
        /\ joinTask[i] = "none"
        /\ \A j \in 1..(i - 1) : joinTask[j] # "none"
        /\ joinTask' = [joinTask EXCEPT ![i] = "turn"]
    /\ afterLeave' = FALSE
    /\ Install(Cur)
    /\ UNCHANGED <<intent, ownInStorage, nextMsgId, createTask, leaveTask, env>>
    /\ received' = <<>>
    /\ UNCHANGED ownOnServer
    /\ UNCHANGED sideVars

\* GroupCall.join when turnServerSource.getSettings fails
JoinTurnFails ==
    /\ \E i \in 1..env.joins :
        /\ joinTask[i] = "turn"
        /\ joinTask' = [joinTask EXCEPT ![i] = "done"]
    /\ Install(Cur)
    /\ UNCHANGED <<intent, ownInStorage, nextMsgId, createTask, leaveTask, afterLeave, env>>
    /\ received' = <<>>
    /\ UNCHANGED ownOnServer
    /\ UNCHANGED sideVars

\* GroupCall.join from the TURN settings to its await of the member state
\* event request: this.joinedData is set and the state becomes Joining
JoinSetData ==
    /\ \E i \in 1..env.joins :
        /\ joinTask[i] = "turn"
        /\ joinTask' = [joinTask EXCEPT ![i] = "send"]
        /\ Install([Cur EXCEPT !.joinedData = i, !.state = "joining"])
    /\ UNCHANGED <<intent, ownInStorage, nextMsgId, createTask, leaveTask, afterLeave, env>>
    /\ received' = <<>>
    /\ UNCHANGED ownOnServer
    /\ UNCHANGED sideVars

\* GroupCall.join after the response: the loop over this._members, with the
\* JoinedData this join() made
JoinConnect ==
    /\ \E i \in 1..env.joins :
        /\ joinTask[i] = "send"
        /\ joinTask' = [joinTask EXCEPT ![i] = "done"]
        /\ Install(ConnectAll(Cur, DOMAIN members, i))
    /\ UNCHANGED <<intent, ownInStorage, nextMsgId, createTask, leaveTask, afterLeave, env>>
    /\ received' = <<>>
    /\ ownOnServer' = ServerAfter("yes")
    /\ UNCHANGED sideVars

\* GroupCall.join when the member state event request fails
JoinSendFails ==
    /\ \E i \in 1..env.joins :
        /\ joinTask[i] = "send"
        /\ joinTask' = [joinTask EXCEPT ![i] = "done"]
    /\ Install(Cur)
    /\ UNCHANGED <<intent, ownInStorage, nextMsgId, createTask, leaveTask, afterLeave, env>>
    /\ received' = <<>>
    /\ ownOnServer' = ServerAfter("unknown")
    /\ UNCHANGED sideVars

\* GroupCall.leave up to its await of the storage read
Leave ==
    /\ joinedData # 0
    /\ leaveTask = "idle"
    /\ leaveTask' = "read"
    /\ Install(Cur)
    /\ UNCHANGED <<intent, ownInStorage, nextMsgId, createTask, joinTask, afterLeave, env>>
    /\ received' = <<>>
    /\ UNCHANGED ownOnServer
    /\ UNCHANGED sideVars

\* GroupCall.leave: _leaveCallMemberContent found the own device and the
\* member state event is being sent
LeaveSend ==
    /\ leaveTask = "read"
    /\ ownInStorage
    /\ leaveTask' = "send"
    /\ Install(Cur)
    /\ UNCHANGED <<intent, ownInStorage, nextMsgId, createTask, joinTask, afterLeave, env>>
    /\ received' = <<>>
    /\ UNCHANGED ownOnServer
    /\ UNCHANGED sideVars

\* GroupCall.leave: nothing to send ("already_left"); finally disconnect
LeaveAlreadyLeft ==
    /\ leaveTask = "read"
    /\ ~ownInStorage
    /\ leaveTask' = "idle"
    /\ afterLeave' = TRUE
    /\ Install(Disconnect(Cur))
    /\ UNCHANGED <<intent, ownInStorage, nextMsgId, createTask, joinTask, env>>
    /\ received' = <<>>
    /\ UNCHANGED ownOnServer
    /\ UNCHANGED sideVars

\* GroupCall.leave after the response, when the call is to be terminated
LeaveTerminate ==
    /\ leaveTask = "send"
    /\ intent = "m.ring" /\ DOMAIN members = {}
    /\ leaveTask' = "terminate"
    /\ Install(Cur)
    /\ UNCHANGED <<intent, ownInStorage, nextMsgId, createTask, joinTask, afterLeave, env>>
    /\ received' = <<>>
    /\ ownOnServer' = ServerAfter("no")
    /\ UNCHANGED sideVars

\* GroupCall.leave after the response, when there is nothing to terminate;
\* finally disconnect
LeaveDone ==
    /\ leaveTask = "send"
    /\ ~(intent = "m.ring" /\ DOMAIN members = {})
    /\ leaveTask' = "idle"
    /\ afterLeave' = TRUE
    /\ Install(Disconnect(Cur))
    /\ UNCHANGED <<intent, ownInStorage, nextMsgId, createTask, joinTask, env>>
    /\ received' = <<>>
    /\ ownOnServer' = ServerAfter("no")
    /\ UNCHANGED sideVars

\* GroupCall.leave when the member state event request fails; finally
\* disconnect
LeaveSendFails ==
    /\ leaveTask = "send"
    /\ leaveTask' = "idle"
    /\ afterLeave' = TRUE
    /\ Install(Disconnect(Cur))
    /\ UNCHANGED <<intent, ownInStorage, nextMsgId, createTask, joinTask, env>>
    /\ received' = <<>>
    /\ ownOnServer' = ServerAfter("unknown")
    /\ UNCHANGED sideVars

\* GroupCall.leave after terminate() returned or failed; finally disconnect
LeaveTerminateDone ==
    /\ leaveTask = "terminate"
    /\ leaveTask' = "idle"
    /\ afterLeave' = TRUE
    /\ Install(Disconnect(Cur))
    /\ UNCHANGED <<intent, ownInStorage, nextMsgId, createTask, joinTask, env>>
    /\ received' = <<>>
    /\ UNCHANGED ownOnServer
    /\ UNCHANGED sideVars

\* the entries of m.devices a membership event can hold for a device
DeviceEntries(userId, deviceId) ==
    IF userId = OwnUserId /\ deviceId = OwnDeviceId
    THEN {[device_id |-> deviceId, session_id |-> s] : s \in {OwnSessionId, StaleOwnSessionId}}
    ELSE {[device_id |-> deviceId, session_id |-> s] : s \in SessionIds}

UserEntries(userId) ==
    UNION {DeviceEntries(userId, k[2]) : k \in {r \in env.keys \cup {OwnKey} : r[1] = userId}}

\* the m.devices lists of a membership event of userId: no device twice
DeviceLists(userId) ==
    {<<>>}
    \cup {<<e>> : e \in UserEntries(userId)}
    \cup {l \in {<<e1, e2>> : e1 \in UserEntries(userId), e2 \in UserEntries(userId)} :
              l[1].device_id # l[2].device_id}

CallUserIds == {k[1] : k \in env.keys \cup {OwnKey}}

\* GroupCall.updateMembership, called by the sync with a member event
UpdateMembership ==
    /\ \E userId \in CallUserIds :
        \E devices \in DeviceLists(userId) :
            /\ Install(UpdateMembershipOp(Cur, userId, devices))
            /\ ownInStorage' = IF userId = OwnUserId
                               THEN \E i \in 1..Len(devices) : devices[i].device_id = OwnDeviceId
                               ELSE ownInStorage
    /\ UNCHANGED <<intent, nextMsgId, createTask, joinTask, leaveTask, afterLeave, env>>
    /\ received' = <<>>
    /\ UNCHANGED ownOnServer
    /\ UNCHANGED sideVars

\* GroupCall.removeMembership, called by the sync
RemoveMembership ==
    /\ \E userId \in CallUserIds :
        /\ Install(RemoveMembershipOp(Cur, userId))
        /\ ownInStorage' = IF userId = OwnUserId THEN FALSE ELSE ownInStorage
    /\ UNCHANGED <<intent, nextMsgId, createTask, joinTask, leaveTask, afterLeave, env>>
    /\ received' = <<>>
    /\ UNCHANGED ownOnServer
    /\ UNCHANGED sideVars

\* call ids of the remote side: below and above every call id of this side
RemoteCallIds == {0, 9}

\* the device messages of this behaviour; only a hangup carries a reason
Messages(id) ==
    {[id |-> id, type |-> t, sender_session_id |-> s, dest_session_id |-> d,
      call_id |-> cid, reason |-> r] :
        t \in env.msgTypes, s \in env.sessions, d \in env.dests,
        cid \in env.callIds, r \in env.reasons \cup {NoReason}}

\* GroupCall.handleDeviceMessage, called by the sync with a to-device message
HandleDeviceMessage ==
    /\ nextMsgId <= env.msgs
    /\ \E k \in env.keys :
        \E msg \in Messages(nextMsgId) :
            /\ (msg.type = "m.call.hangup") = (msg.reason # NoReason)
            /\ Install(HandleDeviceMessageOp(Cur, msg, k))
            /\ received' = <<[key |-> k, msg |-> msg]>>
    /\ nextMsgId' = nextMsgId + 1
    /\ UNCHANGED <<intent, ownInStorage, createTask, joinTask, leaveTask, afterLeave, env>>
    /\ UNCHANGED ownOnServer
    /\ UNCHANGED sideVars

\* PeerCall: the offer is made and the Invite sent (CreateOffer -> InviteSent)
PeerCallInviteSent ==
    /\ \E k \in DOMAIN members :
        /\ members[k].peerCall.state = "CreateOffer"
        /\ Install([SendSignallingMessage(Cur, k, "m.call.invite", members[k].peerCall.callId)
                        EXCEPT !.members[k].peerCall.state = "InviteSent"])
    /\ UNCHANGED <<intent, ownInStorage, nextMsgId, createTask, joinTask, leaveTask, afterLeave, env>>
    /\ received' = <<>>
    /\ UNCHANGED ownOnServer
    /\ UNCHANGED sideVars

\* PeerCall: the answer is made and sent (CreateAnswer -> Connecting)
PeerCallAnswerSent ==
    /\ \E k \in DOMAIN members :
        /\ members[k].peerCall.state = "CreateAnswer"
        /\ Install([SendSignallingMessage(Cur, k, "m.call.answer", members[k].peerCall.callId)
                        EXCEPT !.members[k].peerCall.state = "Connecting"])
    /\ UNCHANGED <<intent, ownInStorage, nextMsgId, createTask, joinTask, leaveTask, afterLeave, env>>
    /\ received' = <<>>
    /\ UNCHANGED ownOnServer
    /\ UNCHANGED sideVars

\* PeerCall: iceConnectionState becomes connected (Connecting -> Connected)
PeerCallConnected ==
    /\ \E k \in DOMAIN members :
        /\ members[k].peerCall.state = "Connecting"
        /\ Install([Cur EXCEPT !.members[k].peerCall.state = "Connected"])
    /\ UNCHANGED <<intent, ownInStorage, nextMsgId, createTask, joinTask, leaveTask, afterLeave, env>>
    /\ received' = <<>>
    /\ UNCHANGED ownOnServer
    /\ UNCHANGED sideVars

\* PeerCall: the Member's current PeerCall reaches Ended by itself (the
\* WebRTC engine fails, a timeout, what the PeerCall makes of the remote
\* side's signalling) and reports it with its hangupReason
PeerCallEnds ==
    /\ \E k \in DOMAIN members :
        \E reason \in HangupReasons :
            /\ members[k].peerCall.state # "none"
            /\ Install(PeerCallTerminate(Cur, k, reason))
    /\ UNCHANGED <<intent, ownInStorage, nextMsgId, createTask, joinTask, leaveTask, afterLeave, env>>
    /\ received' = <<>>
    /\ UNCHANGED ownOnServer
    /\ UNCHANGED sideVars

\* PeerCall: a PeerCall the Member no longer refers to (replaced by connect
\* without having been disposed) fails and reports it to the Member
LostPeerCallEnds ==
    /\ \E k \in DOMAIN members :
        \E reason \in RetryableCodes :
            /\ members[k].leaked > 0
            /\ Install(EmitUpdate(Cur, k, "Ended", reason, FALSE))
    /\ UNCHANGED <<intent, ownInStorage, nextMsgId, createTask, joinTask, leaveTask, afterLeave, env>>
    /\ received' = <<>>
    /\ UNCHANGED ownOnServer
    /\ UNCHANGED sideVars

\* ---------------------------------------------------------- specifications

\* The life cycle of a GroupCall: create, join, leave, the sync's call and
\* membership events, with one remote device (to which this side is the one
\* that invites) and no device messages.
Init ==
    /\ env = [keys |-> {KeySameUser}, joins |-> LifeMaxJoins, calls |-> LifeMaxCallIds,
              msgs |-> 0, msgTypes |-> {}, sessions |-> {}, dests |-> {}, callIds |-> {},
              reasons |-> {}, server |-> FALSE]
    /\ intent \in Intents
    /\ \E newCall \in BOOLEAN : NewGroupCall(newCall)
    /\ NoSide

Next ==
    \/ Create \/ CreateDone \/ CreateFails \/ UpdateCallEvent
    \/ Join \/ JoinTurnFails \/ JoinSetData \/ JoinConnect \/ JoinSendFails
    \/ Leave \/ LeaveSend \/ LeaveAlreadyLeft \/ LeaveTerminate \/ LeaveDone
    \/ LeaveSendFails \/ LeaveTerminateDone
    \/ UpdateMembership \/ RemoveMembership
    \/ PeerCallInviteSent

Spec == Init /\ [][Next]_vars

\* The Members of a GroupCall that joins once: membership events, device
\* messages (Invite and Hangup), PeerCalls that end, with one remote device
\* per behaviour (one that this side invites, or one that invites this side).
MemberInit ==
    /\ \E k \in RemoteKeys :
        env = [keys |-> {k}, joins |-> MemberMaxJoins, calls |-> MemberMaxCallIds,
               msgs |-> MemberMaxMsgs, msgTypes |-> {"m.call.invite", "m.call.hangup"},
               sessions |-> SessionIds,
               dests |-> {OwnSessionId, StaleOwnSessionId}, callIds |-> RemoteCallIds,
               reasons |-> {"user_hangup", "ice_failed"}, server |-> FALSE]
    /\ intent = "m.prompt"
    /\ NewGroupCall(FALSE)
    /\ NoSide

MemberNext ==
    \/ Join \/ JoinSetData \/ JoinConnect
    \/ UpdateMembership \/ RemoveMembership \/ HandleDeviceMessage
    \/ PeerCallEnds \/ LostPeerCallEnds

SpecMember == MemberInit /\ [][MemberNext]_vars

\* The routing of device messages in a GroupCall that has not joined:
\* membership events and device messages of both remote devices.
RouteInit ==
    /\ env = [keys |-> RemoteKeys, joins |-> 0, calls |-> 0,
              msgs |-> RouteMaxMsgs,
              msgTypes |-> {"m.call.invite", "m.call.hangup"}, sessions |-> SessionIds,
              dests |-> {OwnSessionId}, callIds |-> {9},
              reasons |-> {"user_hangup"}, server |-> FALSE]
    /\ intent = "m.prompt"
    /\ NewGroupCall(FALSE)
    /\ NoSide

RouteNext == UpdateMembership \/ RemoveMembership \/ HandleDeviceMessage

SpecRoute == RouteInit /\ [][RouteNext]_vars

\* join() and leave() of a call without remote members, with the homeserver's
\* view of the own m.call.member state.
LeaveInit ==
    /\ env = [keys |-> {}, joins |-> LeaveMaxJoins, calls |-> 0, msgs |-> 0, msgTypes |-> {},
              sessions |-> {}, dests |-> {}, callIds |-> {}, reasons |-> {},
              server |-> TRUE]
    /\ intent \in Intents
    /\ NewGroupCall(FALSE)
    /\ NoSide

LeaveNext ==
    \/ Join \/ JoinTurnFails \/ JoinSetData \/ JoinConnect \/ JoinSendFails
    \/ Leave \/ LeaveSend \/ LeaveAlreadyLeft \/ LeaveTerminate \/ LeaveDone
    \/ LeaveSendFails \/ LeaveTerminateDone
    \/ UpdateMembership \/ RemoveMembership

SpecLeave == LeaveInit /\ [][LeaveNext]_vars

\* Device messages of one session for one device, as many as the buffer is
\* said to hold and more, with the membership events of that device.
\* the session of a device that restarted and whose new membership has not
\* reached this side: no membership event names it
UnannouncedSessionId == "S3"

\* A device keeps sending candidates from a session its membership does not
\* name, while membership events come and go.
BufferInit ==
    /\ env = [keys |-> {KeySameUser}, joins |-> 0, calls |-> 0, msgs |-> BufferMaxMsgs,
              msgTypes |-> {"m.call.candidates"}, sessions |-> {UnannouncedSessionId},
              dests |-> {OwnSessionId}, callIds |-> {9}, reasons |-> {},
              server |-> FALSE]
    /\ intent = "m.prompt"
    /\ NewGroupCall(FALSE)
    /\ NoSide

BufferNext == UpdateMembership \/ RemoveMembership \/ HandleDeviceMessage

SpecBuffer == BufferInit /\ [][BufferNext]_vars

\* The Invite and the Candidates of one remote device reach a GroupCall in
\* any order, while its membership events come and go.
CandidatesInit ==
    /\ env = [keys |-> {KeyOtherUser}, joins |-> 0, calls |-> 0, msgs |-> CandidatesMaxMsgs,
              msgTypes |-> {"m.call.invite", "m.call.candidates"}, sessions |-> {"S1"},
              dests |-> {OwnSessionId}, callIds |-> {9}, reasons |-> {},
              server |-> FALSE]
    /\ intent = "m.prompt"
    /\ NewGroupCall(FALSE)
    /\ NoSide

CandidatesNext == UpdateMembership \/ RemoveMembership \/ HandleDeviceMessage

SpecCandidates == CandidatesInit /\ [][CandidatesNext]_vars

\* join() called once or twice for a call with two remote devices, while the
\* sync brings membership events; the homeserver's answer to the request of
\* join() is tracked.
ConnectInit ==
    /\ env = [keys |-> RemoteKeys, joins |-> ConnectMaxJoins, calls |-> ConnectMaxCallIds,
              msgs |-> 0, msgTypes |-> {}, sessions |-> {}, dests |-> {}, callIds |-> {},
              reasons |-> {}, server |-> TRUE]
    /\ intent = "m.prompt"
    /\ NewGroupCall(FALSE)
    /\ NoSide

ConnectNext ==
    \/ Join \/ JoinTurnFails \/ JoinSetData \/ JoinConnect \/ JoinSendFails
    \/ UpdateMembership \/ RemoveMembership

SpecConnect == ConnectInit /\ [][ConnectNext]_vars

\* Two peers A and B of a call; each runs Member.connect on its Member for
\* the other.
PairKeys == UserIds \X DeviceIds

PairInit ==
    /\ env = [keys |-> {}, joins |-> 0, calls |-> 0, msgs |-> 0, msgTypes |-> {},
              sessions |-> {}, dests |-> {}, callIds |-> {}, reasons |-> {},
              server |-> FALSE]
    /\ intent = "m.prompt"
    /\ NewGroupCall(FALSE)
    /\ peerA \in PairKeys
    /\ peerB \in PairKeys \ {peerA}
    /\ legA = NoLeg
    /\ legB = NoLeg
    /\ NoKeys
    /\ NoTracker
    /\ NoSummary
    /\ NoIndex

\* side A connects to its Member for B
PairConnectA ==
    /\ ~legA.connected
    /\ legA' = [connected |-> TRUE,
                member |-> Connect(NewMember("S1"), peerA[1], peerA[2], peerB[1], peerB[2], 1, 1)]
    /\ UNCHANGED <<state, joinedData, members, buffered, intent, disposed, ownInStorage,
                   ownOnServer, nextCallId, nextMsgId, createTask, joinTask, leaveTask, delivered,
                   afterLeave, sent, log, received, env, peerA, peerB, legB, keyed,
                   tracker, summary, ownIndex>>

\* side B connects to its Member for A
PairConnectB ==
    /\ ~legB.connected
    /\ legB' = [connected |-> TRUE,
                member |-> Connect(NewMember("S1"), peerB[1], peerB[2], peerA[1], peerA[2], 1, 2)]
    /\ UNCHANGED <<state, joinedData, members, buffered, intent, disposed, ownInStorage,
                   ownOnServer, nextCallId, nextMsgId, createTask, joinTask, leaveTask, delivered,
                   afterLeave, sent, log, received, env, peerA, peerB, legA, keyed,
                   tracker, summary, ownIndex>>

PairNext == PairConnectA \/ PairConnectB

SpecPair == PairInit /\ [][PairNext]_vars

\* The code units JSON.stringify treats specially in a member key, and the
\* comma getMemberKey puts between the two ids.
QuoteChar == 34
CommaChar == 44
BackslashChar == 92

KeyChars == {QuoteChar, CommaChar, BackslashChar}

\* the user and device ids of the member-key specification
KeyStrings == UNION {[1..n -> KeyChars] : n \in 0..KeyMaxLen}

\* JSON.stringify of a string: quotes around it, a backslash before every
\* quote and backslash
RECURSIVE JsonEscape(_)
JsonEscape(str) ==
    IF str = <<>> THEN <<>>
    ELSE (IF Head(str) \in {QuoteChar, BackslashChar}
          THEN <<BackslashChar, Head(str)>>
          ELSE <<Head(str)>>) \o JsonEscape(Tail(str))

JsonStringify(str) == <<QuoteChar>> \o JsonEscape(str) \o <<QuoteChar>>

\* a variant of the member key that joins the two ids as they are
GetMemberKeyUnquoted(userId, deviceId) ==
    userId \o <<CommaChar>> \o deviceId

\* getMemberKey
GetMemberKey(userId, deviceId) ==
    JsonStringify(userId) \o <<CommaChar>> \o JsonStringify(deviceId)

\* the (user_id, device_id) pairs a member key was computed for so far
KeyedPairs == UNION {keyed[key] : key \in DOMAIN keyed}

KeyInit ==
    /\ env = [keys |-> {}, joins |-> 0, calls |-> 0, msgs |-> 0, msgTypes |-> {},
              sessions |-> {}, dests |-> {}, callIds |-> {}, reasons |-> {},
              server |-> FALSE]
    /\ intent = "m.prompt"
    /\ NewGroupCall(FALSE)
    /\ NoSide

\* getMemberKey(userId, deviceId) for a device of a membership event, as in
\* the loop of GroupCall.updateMembership
KeyForDevice ==
    /\ Cardinality(KeyedPairs) < KeyMaxPairs
    /\ \E userId \in KeyStrings, deviceId \in KeyStrings :
        LET key == GetMemberKey(userId, deviceId)
        IN keyed' = IF key \in DOMAIN keyed
                    THEN [keyed EXCEPT ![key] = @ \cup {<<userId, deviceId>>}]
                    ELSE keyed @@ (key :> {<<userId, deviceId>>})
    /\ UNCHANGED <<state, joinedData, members, buffered, intent, disposed, ownInStorage,
                   ownOnServer, nextCallId, nextMsgId, createTask, joinTask, leaveTask, delivered,
                   afterLeave, sent, log, received, env, pairVars, tracker, summary, ownIndex>>

KeyNext == KeyForDevice

SpecKey == KeyInit /\ [][KeyNext]_vars

\* ----------------------------------------------------------- DeviceTracker

\* the variables of the GroupCall, which the specifications below leave alone
callVars == <<state, joinedData, members, buffered, intent, disposed, ownInStorage,
              ownOnServer, nextCallId, nextMsgId, createTask, joinTask, leaveTask, delivered,
              afterLeave, sent, log, received, env>>

\* a GroupCall nothing happens to
IdleGroupCall ==
    /\ env = [keys |-> {}, joins |-> 0, calls |-> 0, msgs |-> 0, msgTypes |-> {},
              sessions |-> {}, dests |-> {}, callIds |-> {}, reasons |-> {},
              server |-> FALSE]
    /\ intent = "m.prompt"
    /\ NewGroupCall(FALSE)

TRACKING_STATUS_OUTDATED == 0
TRACKING_STATUS_UPTODATE == 1

\* the room trackRoom is called for, and another encrypted room
TrackedRoomId == "!abc:hs.tld"
OtherRoomId == "!other:hs.tld"

TrackerOwnUserId == "@alice:hs.tld"
TrackerUserIds == {"@alice:hs.tld", "@bob:hs.tld", "@charly:hs.tld"}
Memberships == {"join", "invite", "leave"}

InSeq(x, seq) == \E i \in 1..Len(seq) : seq[i] = x

\* the stored user identities are a function from the user ids that have one;
\* addRoomToIdentity with the identity read for userId, and the
\* userIdentities.set of _writeMember when it returns one
AddRoomToIdentity(identities, userId, roomId) ==
    IF userId \notin DOMAIN identities
    THEN identities @@ (userId :> [userId |-> userId, roomIds |-> <<roomId>>,
                                   deviceTrackingStatus |-> TRACKING_STATUS_OUTDATED])
    ELSE IF ~InSeq(roomId, identities[userId].roomIds)
    THEN [identities EXCEPT ![userId].roomIds = Append(@, roomId)]
    ELSE identities

\* DeviceTracker._writeMember
WriteMember(identities, userId, roomId) == AddRoomToIdentity(identities, userId, roomId)

\* a variant of _writeJoinedMembers that writes every member of the list
RECURSIVE WriteAllMembers(_, _, _, _)
WriteAllMembers(identities, memberList, userIds, roomId) ==
    IF userIds = {} THEN identities
    ELSE LET userId == CHOOSE u \in userIds : TRUE
         IN WriteAllMembers(WriteMember(identities, userId, roomId),
                            memberList, userIds \ {userId}, roomId)

\* DeviceTracker._writeJoinedMembers: the members are of different users, so
\* the order in which their identities are written does not matter
RECURSIVE WriteJoinedMembers(_, _, _, _)
WriteJoinedMembers(identities, memberList, userIds, roomId) ==
    IF userIds = {} THEN identities
    ELSE LET userId == CHOOSE u \in userIds : TRUE
             written == IF memberList[userId] = "join"
                        THEN WriteMember(identities, userId, roomId)
                        ELSE identities
         IN WriteJoinedMembers(written, memberList, userIds \ {userId}, roomId)

\* a variant of trackRoom that does not look at room.isTrackingMembers
TrackRoomOpAlways(t) ==
    IF ~t.isEncrypted THEN [t EXCEPT !.op = "trackRoom"]
    ELSE [t EXCEPT !.op = "trackRoom",
                   !.isTrackingMembers = TRUE,
                   !.userIdentities = WriteJoinedMembers(@, t.memberList,
                                                         DOMAIN t.memberList, TrackedRoomId)]

\* DeviceTracker.trackRoom, with room.writeIsTrackingMembers(true) and
\* room.applyIsTrackingMembersChanges
TrackRoomOp(t) ==
    IF t.isTrackingMembers \/ ~t.isEncrypted THEN [t EXCEPT !.op = "trackRoom"]
    ELSE [t EXCEPT !.op = "trackRoom",
                   !.isTrackingMembers = TRUE,
                   !.userIdentities = WriteJoinedMembers(@, t.memberList,
                                                         DOMAIN t.memberList, TrackedRoomId)]

\* DeviceTracker.writeDeviceChanges: the changed users that have an identity
\* are marked outdated
WriteDeviceChangesOp(t, changed) ==
    [t EXCEPT !.op = "writeDeviceChanges",
              !.userIdentities = [u \in DOMAIN @ |->
                    IF u \in changed
                    THEN [@[u] EXCEPT !.deviceTrackingStatus = TRACKING_STATUS_OUTDATED]
                    ELSE @[u]]]

\* the user identities the storage may hold before the room is tracked: of
\* some users, for another room
StoredIdentities ==
    UNION {[users -> {[roomIds |-> <<OtherRoomId>>, deviceTrackingStatus |-> s] :
                        s \in {TRACKING_STATUS_OUTDATED, TRACKING_STATUS_UPTODATE}}] :
           users \in SUBSET TrackerUserIds}

WithUserId(identities) ==
    [u \in DOMAIN identities |->
        [userId |-> u, roomIds |-> identities[u].roomIds,
         deviceTrackingStatus |-> identities[u].deviceTrackingStatus]]

\* A room with any member list, encrypted or not, tracked or not, and a
\* storage with identities from another room.
TrackInit ==
    /\ IdleGroupCall
    /\ NoPair /\ NoKeys /\ NoSummary /\ NoIndex
    /\ \E encrypted \in BOOLEAN, tracking \in BOOLEAN,
          users \in (SUBSET TrackerUserIds) \ {{}}, identities \in StoredIdentities :
        \E memberList \in [users -> Memberships] :
            tracker = [op |-> "none", isEncrypted |-> encrypted,
                       isTrackingMembers |-> tracking, memberList |-> memberList,
                       userIdentities |-> WithUserId(identities)]

TrackRoom ==
    /\ tracker' = TrackRoomOp(tracker)
    /\ UNCHANGED <<callVars, pairVars, keyed, summary, ownIndex>>

WriteDeviceChanges ==
    /\ \E changed \in SUBSET TrackerUserIds : tracker' = WriteDeviceChangesOp(tracker, changed)
    /\ UNCHANGED <<callVars, pairVars, keyed, summary, ownIndex>>

TrackNext == TrackRoom \/ WriteDeviceChanges

SpecTrack == TrackInit /\ [][TrackNext]_vars

\* ------------------------------------------------- DeviceTracker (key query)

TrackerOwnDeviceId == "ABCD"

\* the users and the device of the key queries, as in the tests
QueryUserIds == {"@alice:hs.tld", "@bob:hs.tld"}
QueryDeviceIds == {"device1"}
Ed25519Keys == {"ed25519:key", "ed25519:newKey"}
Curve25519Keys == {"curve25519:key", "curve25519:newKey"}
DisplayNames == {"Phone", "Tablet"}

\* the sections /keys/query may return for a device of userId; signed says
\* whether verifyEd25519Signature accepts the section
DeviceSections(userId) ==
    {[user_id |-> userId, device_id |-> d, ed25519 |-> e, curve25519 |-> c,
      signed |-> s, device_display_name |-> n] :
        d \in QueryDeviceIds, e \in Ed25519Keys, c \in Curve25519Keys,
        s \in BOOLEAN, n \in DisplayNames}

\* the device_keys of a response for one user: no device, or one
DeviceKeysOf(userId) ==
    {<<>>} \cup {<<section>> : section \in DeviceSections(userId)}

\* the responses to a query for userIds: an entry for each user, in any order
RECURSIVE KeyResponses(_)
KeyResponses(userIds) ==
    IF userIds = {} THEN {<<>>}
    ELSE UNION {{<<[userId |-> u, deviceKeys |-> keys]>> \o rest :
                    keys \in DeviceKeysOf(u), rest \in KeyResponses(userIds \ {u})} :
                u \in userIds}

\* deviceKeysAsDeviceIdentity
DeviceKeysAsDeviceIdentity(section) ==
    [userId |-> section.user_id, deviceId |-> section.device_id,
     ed25519Key |-> section.ed25519, curve25519Key |-> section.curve25519,
     displayName |-> section.device_display_name]

\* the filter of _filterVerifiedDeviceKeys over the sections of one user:
\* the sections kept, and the curve25519 keys seen so far. A section is
\* listed under its own device_id and its keys are strings, so that the
\* checks of the device id and of the key types pass.
RECURSIVE FilterSections(_, _, _, _)
FilterSections(userId, sections, kept, curve25519Keys) ==
    IF sections = <<>> THEN [kept |-> kept, curve25519Keys |-> curve25519Keys]
    ELSE LET section == Head(sections) IN
         IF section.user_id # userId \/ section.curve25519 \in curve25519Keys
         THEN FilterSections(userId, Tail(sections), kept, curve25519Keys)
         ELSE FilterSections(userId, Tail(sections),
                             IF section.signed THEN Append(kept, section) ELSE kept,
                             curve25519Keys \cup {section.curve25519})

\* DeviceTracker._filterVerifiedDeviceKeys
RECURSIVE FilterVerifiedDeviceKeysFrom(_, _)
FilterVerifiedDeviceKeysFrom(response, curve25519Keys) ==
    IF response = <<>> THEN <<>>
    ELSE LET entry == Head(response)
             f == FilterSections(entry.userId, entry.deviceKeys, <<>>, curve25519Keys)
         IN <<[userId |-> entry.userId, verifiedKeys |-> f.kept]>>
            \o FilterVerifiedDeviceKeysFrom(Tail(response), f.curve25519Keys)

FilterVerifiedDeviceKeys(response) == FilterVerifiedDeviceKeysFrom(response, {})

Without(f, keys) == [x \in DOMAIN f \ keys |-> f[x]]

SeqRange(seq) == {seq[i] : i \in 1..Len(seq)}

\* DeviceTracker._storeQueriedDevicesForUserId: the storage after it, and the
\* identities it returns
StoreQueriedDevicesForUserId(t, userId, deviceIdentities) ==
    LET queried == SeqRange(deviceIdentities)
        known == {k \in DOMAIN t.deviceIdentities : k[1] = userId}
        gone == {k \in known : \A di \in queried : di.deviceId # k[2]}
        changed == {di \in queried :
                        /\ <<userId, di.deviceId>> \in known
                        /\ t.deviceIdentities[<<di.userId, di.deviceId>>].ed25519Key
                               # di.ed25519Key}
        toStore == queried \ changed
        stored == [k \in {<<di.userId, di.deviceId>> : di \in toStore} |->
                      CHOOSE di \in toStore : <<di.userId, di.deviceId>> = k]
    IN [t |-> [t EXCEPT !.deviceIdentities = stored @@ Without(@, gone),
                        !.userIdentities[userId].deviceTrackingStatus =
                            TRACKING_STATUS_UPTODATE],
        all |-> toStore \cup {t.deviceIdentities[<<di.userId, di.deviceId>>] : di \in changed}]

\* the loop of _queryKeys over the verified keys of each user
RECURSIVE StoreVerified(_, _, _)
StoreVerified(t, verifiedKeysPerUser, all) ==
    IF verifiedKeysPerUser = <<>> THEN [t |-> t, all |-> all]
    ELSE LET entry == Head(verifiedKeysPerUser)
             identities == [i \in 1..Len(entry.verifiedKeys) |->
                               DeviceKeysAsDeviceIdentity(entry.verifiedKeys[i])]
             s == StoreQueriedDevicesForUserId(t, entry.userId, identities)
         IN StoreVerified(s.t, Tail(verifiedKeysPerUser), all \cup s.all)

\* DeviceTracker._queryKeys with the response of hsApi.queryKeys
QueryKeys(t, response) == StoreVerified(t, FilterVerifiedDeviceKeys(response), {})

\* the identities of userIds that have roomId, with the given status
IdentitiesWith(t, roomId, userIds, status) ==
    {u \in userIds \cap DOMAIN t.userIdentities :
        /\ InSeq(roomId, t.userIdentities[u].roomIds)
        /\ t.userIdentities[u].deviceTrackingStatus = status}

\* DeviceTracker._devicesForUserIds, called by devicesForRoomMembers
DevicesForUserIds(t, roomId, userIds, response) ==
    LET upToDate == IdentitiesWith(t, roomId, userIds, TRACKING_STATUS_UPTODATE)
        outdated == IdentitiesWith(t, roomId, userIds, TRACKING_STATUS_OUTDATED)
        q == IF outdated # {} THEN QueryKeys(t, response) ELSE [t |-> t, all |-> {}]
        devices == {q.t.deviceIdentities[k] :
                        k \in {x \in DOMAIN q.t.deviceIdentities : x[1] \in upToDate}}
                   \cup q.all
    IN [q.t EXCEPT !.op = "devicesForRoomMembers",
                   !.response = IF outdated # {} THEN response ELSE <<>>,
                   !.returned = {device \in devices :
                                    ~(device.userId = TrackerOwnUserId
                                      /\ device.deviceId = TrackerOwnDeviceId)}]

\* The room is tracked and both users have an outdated identity for it, as
\* after trackRoom; nothing is known of their devices.
QueryInit ==
    /\ IdleGroupCall
    /\ NoPair /\ NoKeys /\ NoSummary /\ NoIndex
    /\ tracker = [op |-> "none",
                  userIdentities |-> [u \in QueryUserIds |->
                        [userId |-> u, roomIds |-> <<TrackedRoomId>>,
                         deviceTrackingStatus |-> TRACKING_STATUS_OUTDATED]],
                  deviceIdentities |-> <<>>,
                  response |-> <<>>,
                  returned |-> {}]

\* devicesForRoomMembers(roomId, userIds, hsApi, log); the homeserver answers
\* a query for the outdated users
DevicesForRoomMembers ==
    /\ \E userIds \in (SUBSET QueryUserIds) \ {{}} :
        \E response \in KeyResponses(IdentitiesWith(tracker, TrackedRoomId, userIds,
                                                    TRACKING_STATUS_OUTDATED)) :
            tracker' = DevicesForUserIds(tracker, TrackedRoomId, userIds, response)
    /\ UNCHANGED <<callVars, pairVars, keyed, summary, ownIndex>>

\* writeDeviceChanges for users of the key queries
QueryDeviceChanges ==
    /\ \E changed \in SUBSET QueryUserIds : tracker' = WriteDeviceChangesOp(tracker, changed)
    /\ UNCHANGED <<callVars, pairVars, keyed, summary, ownIndex>>

QueryNext == DevicesForRoomMembers \/ QueryDeviceChanges

SpecQuery == QueryInit /\ [][QueryNext]_vars

\* ---------------------------------------------------------------- RoomSummary

\* a value that may be null or undefined: <<>> for none, <<v>> for v
Null == <<>>
Some(v) == <<v>>

SummaryRoomId == "id"
SummaryMemberships == {"join", "leave"}

\* new SummaryData(null, roomId)
NewSummaryData(roomId) ==
    [roomId |-> roomId, name |-> Null, lastMessageBody |-> Null,
     lastMessageTimestamp |-> Null, isUnread |-> Null, isEncrypted |-> Null,
     isDirectMessage |-> Null, membership |-> Null, inviteCount |-> 0,
     joinCount |-> 0, heroes |-> Null, canonicalAlias |-> Null,
     altAliases |-> Null, hasFetchedMembers |-> FALSE,
     lastPaginationToken |-> Null, avatarUrl |-> Null,
     notificationCount |-> 0, highlightCount |-> 0, cloned |-> FALSE]

\* new SummaryData(copy)
CopySummaryData(copy) == [copy EXCEPT !.cloned = TRUE]

\* SummaryData.serialize
Serialize(data) == [f \in DOMAIN data \ {"cloned"} |-> data[f]]

\* The objects applySyncResponse works on: this._data of the summary (this),
\* the object its variable data refers to, and whether they are one object.

\* SummaryData.cloneIfNeeded
CloneIfNeeded(h) ==
    IF h.data.cloned THEN h
    ELSE [h EXCEPT !.data = CopySummaryData(h.data), !.same = FALSE]

\* data.field = value
Assign(h, field, value) ==
    [h EXCEPT !.data[field] = value,
              !.this[field] = IF h.same THEN value ELSE @]

\* updateSummary
UpdateSummary(h, s) ==
    LET heroes == s.heroes
        inviteCount == s.joined_member_count
        joinCount == s.invited_member_count
        h1 == IF heroes # Null THEN Assign(CloneIfNeeded(h), "heroes", heroes) ELSE h
        h2 == IF inviteCount # Null
              THEN Assign(CloneIfNeeded(h1), "inviteCount", inviteCount[1]) ELSE h1
    IN IF joinCount # Null
       THEN Assign(CloneIfNeeded(h2), "joinCount", joinCount[1]) ELSE h2

\* processEvent
ProcessEvent(h, event) ==
    CASE event.type = "m.room.encryption" ->
            IF h.data.isEncrypted # Some(TRUE)
            THEN Assign(CloneIfNeeded(h), "isEncrypted", Some(TRUE)) ELSE h
      [] event.type = "m.room.name" ->
            IF event.name # h.data.name
            THEN Assign(CloneIfNeeded(h), "name", event.name) ELSE h
      [] event.type = "m.room.avatar" ->
            IF event.url # h.data.avatarUrl
            THEN Assign(CloneIfNeeded(h), "avatarUrl", event.url) ELSE h
      [] event.type = "m.room.message" ->
            LET h1 == Assign(Assign(CloneIfNeeded(h), "lastMessageTimestamp",
                                    event.origin_server_ts), "isUnread", Some(TRUE))
            IN IF event.msgtype = Some("m.text")
               THEN Assign(h1, "lastMessageBody", event.body) ELSE h1
      [] event.type = "m.room.canonical_alias" ->
            Assign(Assign(CloneIfNeeded(h), "canonicalAlias", event.alias),
                   "altAliases", event.alt_aliases)
      [] OTHER -> h

\* events.reduce(processEvent, data)
RECURSIVE ReduceEvents(_, _)
ReduceEvents(h, events) ==
    IF events = <<>> THEN h
    ELSE ReduceEvents(ProcessEvent(h, Head(events)), Tail(events))

\* applySyncResponse
ApplySyncResponse(h, roomResponse, membership) ==
    LET h1 == IF roomResponse.summary # Null
              THEN UpdateSummary(h, roomResponse.summary[1]) ELSE h
        h2 == IF Some(membership) # h1.data.membership
              THEN Assign(CloneIfNeeded(h1), "membership", Some(membership)) ELSE h1
        h3 == IF roomResponse.state # Null
              THEN ReduceEvents(h2, roomResponse.state[1].events) ELSE h2
        timeline == roomResponse.timeline
        h4 == IF timeline # Null /\ timeline[1].prev_batch # Null
              THEN Assign(CloneIfNeeded(h3), "lastPaginationToken", timeline[1].prev_batch)
              ELSE h3
        h5 == IF timeline # Null THEN ReduceEvents(h4, timeline[1].events) ELSE h4
        unreadNotifications == roomResponse.unread_notifications
    IN IF unreadNotifications # Null
       THEN Assign(Assign(CloneIfNeeded(h5), "highlightCount",
                          unreadNotifications[1].highlight_count),
                   "notificationCount", unreadNotifications[1].notification_count)
       ELSE h5

\* RoomSummary.writeSync: ret is what it returns, written what it hands to
\* txn.roomSummary.set
WriteSyncOp(s, roomResponse, membership) ==
    LET data == [s.data EXCEPT !.cloned = FALSE]
        h == ApplySyncResponse([this |-> data, data |-> data, same |-> TRUE],
                               roomResponse, membership)
    IN [s EXCEPT !.op = "writeSync",
                 !.data = h.this,
                 !.ret = IF ~h.same THEN Some(h.data) ELSE Null,
                 !.written = IF ~h.same THEN Some(Serialize(h.data)) ELSE Null,
                 !.roomResponse = roomResponse,
                 !.membership = membership,
                 !.syncs = @ + 1]

\* RoomSummary.applyChanges with the data the last writeSync returned
ApplyChangesOp(s) ==
    [s EXCEPT !.op = "applyChanges", !.data = s.ret[1], !.ret = Null, !.written = Null]

EmptyResponse ==
    [summary |-> Null, state |-> Null, timeline |-> Null, unread_notifications |-> Null]

SummaryParts ==
    {[heroes |-> Some(<<"@bob:hs.tld">>), joined_member_count |-> Null,
      invited_member_count |-> Null],
     [heroes |-> Null, joined_member_count |-> Some(2), invited_member_count |-> Some(1)]}

SummaryEvents ==
    {[type |-> "m.room.encryption"],
     [type |-> "m.room.name", name |-> Some("Room")],
     [type |-> "m.room.avatar", url |-> Some("mxc://hs.tld/a")],
     [type |-> "m.room.message", origin_server_ts |-> Some(1), msgtype |-> Some("m.text"),
      body |-> Some("hi")],
     [type |-> "m.room.canonical_alias", alias |-> Some("#room:hs.tld"),
      alt_aliases |-> Null],
     [type |-> "m.room.topic"]}

UnreadNotifications ==
    {[highlight_count |-> 0, notification_count |-> n] : n \in {0, 1}}

\* the room responses of a sync: empty, or with one part
RoomResponses ==
    {EmptyResponse}
    \cup {[EmptyResponse EXCEPT !.summary = Some(s)] : s \in SummaryParts}
    \cup {[EmptyResponse EXCEPT !.state = Some([events |-> <<e>>])] : e \in SummaryEvents}
    \cup {[EmptyResponse EXCEPT !.timeline = Some([prev_batch |-> Null, events |-> <<e>>])] :
            e \in SummaryEvents}
    \cup {[EmptyResponse EXCEPT !.timeline = Some([prev_batch |-> Some("t1"), events |-> <<>>])]}
    \cup {[EmptyResponse EXCEPT !.unread_notifications = Some(u)] : u \in UnreadNotifications}

\* new RoomSummary(roomId)
SummaryInit ==
    /\ IdleGroupCall
    /\ NoPair /\ NoKeys /\ NoTracker /\ NoIndex
    /\ summary = [op |-> "none", data |-> NewSummaryData(SummaryRoomId), ret |-> Null,
                  written |-> Null, roomResponse |-> EmptyResponse, membership |-> "none",
                  syncs |-> 0]

\* writeSync(roomResponse, membership, txn)
WriteSync ==
    /\ summary.syncs < SummaryMaxSyncs
    /\ \E roomResponse \in RoomResponses, membership \in SummaryMemberships :
        summary' = WriteSyncOp(summary, roomResponse, membership)
    /\ UNCHANGED <<callVars, pairVars, keyed, tracker, ownIndex>>

\* applyChanges(data)
ApplyChanges ==
    /\ summary.ret # Null
    /\ summary' = ApplyChangesOp(summary)
    /\ UNCHANGED <<callVars, pairVars, keyed, tracker, ownIndex>>

SummaryNext == WriteSync \/ ApplyChanges

SpecSummary == SummaryInit /\ [][SummaryNext]_vars

\* ------------------------------------------------------ own device index
\* GroupCall._deviceIndex, set by _createJoinPayload and by the own-device
\* branch of updateMembership. ownIndex.stored is the m.devices list of this
\* call in the stored own m.call.member event (<<>> when there is none),
\* ownIndex.content the list last built or observed.

\* _createJoinPayload: the stored list without the own device, the own entry
\* pushed at its end, and _deviceIndex = the length of the list after the push
CreateJoinPayloadOp(stored) ==
    LET filtered == SelectSeq(stored, LAMBDA d : d.device_id # OwnDeviceId)
        devices == Append(filtered, [device_id |-> OwnDeviceId,
                                     session_id |-> OwnSessionId])
    IN [devices |-> devices, deviceIndex |-> Len(devices)]

\* the loop of updateMembership for the own user: _deviceIndex = deviceIndex,
\* the zero-based loop index, at each entry of the own device
UpdateOwnDeviceIndex(deviceIndex, devices) ==
    LET own == {i \in 1..Len(devices) : devices[i].device_id = OwnDeviceId}
    IN IF own = {} THEN deviceIndex
       ELSE Some((CHOOSE i \in own : \A j \in own : j <= i) - 1)

\* a new GroupCall of a user with two more devices: _deviceIndex undefined;
\* the stored own event has any list
IndexInit ==
    /\ env = [keys |-> {<<OwnUserId, <<1>>>>, KeySameUser}, joins |-> 0, calls |-> 0, msgs |-> 0,
              msgTypes |-> {}, sessions |-> {}, dests |-> {}, callIds |-> {},
              reasons |-> {}, server |-> FALSE]
    /\ intent = "m.prompt"
    /\ NewGroupCall(FALSE)
    /\ NoPair /\ NoKeys /\ NoTracker /\ NoSummary
    /\ \E stored \in DeviceLists(OwnUserId) :
        ownIndex = [op |-> "new", stored |-> stored, content |-> <<>>,
                    deviceIndex |-> Null]

\* join() builds its payload
IndexCreateJoinPayload ==
    /\ LET p == CreateJoinPayloadOp(ownIndex.stored)
       IN ownIndex' = [op |-> "createJoinPayload", stored |-> ownIndex.stored,
                       content |-> p.devices, deviceIndex |-> Some(p.deviceIndex)]
    /\ UNCHANGED <<callVars, pairVars, keyed, tracker, summary>>

\* the payload join() sent comes back with the sync: it is stored and
\* updateMembership is called with its m.devices
IndexObservePayload ==
    /\ ownIndex.op = "createJoinPayload"
    /\ ownIndex' = [op |-> "updateMembership", stored |-> ownIndex.content,
                    content |-> ownIndex.content,
                    deviceIndex |-> UpdateOwnDeviceIndex(ownIndex.deviceIndex,
                                                         ownIndex.content)]
    /\ UNCHANGED <<callVars, pairVars, keyed, tracker, summary>>

\* an own membership event written by another device of the own user comes
\* with the sync
IndexUpdateMembership ==
    /\ \E devices \in DeviceLists(OwnUserId) :
        ownIndex' = [op |-> "updateMembership", stored |-> devices,
                     content |-> devices,
                     deviceIndex |-> UpdateOwnDeviceIndex(ownIndex.deviceIndex,
                                                          devices)]
    /\ UNCHANGED <<callVars, pairVars, keyed, tracker, summary>>

IndexNext == IndexCreateJoinPayload \/ IndexObservePayload \/ IndexUpdateMembership

SpecIndex == IndexInit /\ [][IndexNext]_vars

\* ------------------------------------------------------------------ claims

C2_ExactlyOneInitiates ==
    (legA.connected /\ legB.connected)
        => (legA.member.peerCall.state # "none" <=> legB.member.peerCall.state = "none")

\* both sides have connected, they are devices of two users with the same
\* device id, and side B is the one that created the PeerCall
C2_Witness ==
    /\ legA.connected /\ legB.connected
    /\ peerA[1] # peerB[1] /\ peerA[2] = peerB[2]
    /\ legB.member.peerCall.state # "none"

\* C3: a Member holds at most one live PeerCall at any time: connect never
\* replaces a PeerCall that has not ended, so no PeerCall is left undisposed.
C3_AtMostOnePeerCall ==
    \A k \in DOMAIN members : members[k].leaked = 0

\* C4: hasJoined (the state is Joining or Joined) holds exactly when the
\* joined-data bundle with the local media is held.
C4_HasJoinedIffJoinedData ==
    (state \in {"joining", "joined"}) <=> (joinedData # 0)

\* C5: once leave() has completed, no Member of the call holds a PeerCall and
\* no step sends a signalling message for the call.
C5_NoPeerCallAfterLeave ==
    [][/\ afterLeave' => \A k \in DOMAIN members' : members'[k].peerCall.state = "none"
       /\ afterLeave /\ afterLeave' => sent' = <<>>]_vars

Retryable(reason) == reason # NoReason /\ reason \notin ErrorCodesWithoutRetry

\* the entry after entry i of the log is connect run again for the same Member
RetriedAfter(i) ==
    /\ i < Len(log)
    /\ log[i + 1].kind = "connect"
    /\ log[i + 1].reason = "retry"
    /\ log[i + 1].key = log[i].key

\* C6 as stated: a Member's retry_count never exceeds 3.
C6_RetryCountAtMost3 ==
    \A k \in DOMAIN members : members[k].retryCount <= 3

\* C6 amended: emitUpdate runs connect again at most 3 times for one Member,
\* and no more often than retry_count counts; retry_count itself is not capped.
C6_AtMost3Retries ==
    \A k \in DOMAIN members :
        members[k].retries <= 3 /\ members[k].retries <= members[k].retryCount

\* a Member whose fourth PeerCall failure has been counted after 3 retries
C6_Witness ==
    \E k \in DOMAIN members : members[k].retries = 3 /\ members[k].retryCount = 4

\* C7: when a PeerCall ends with a reason outside the no-retry set,
\* retry_count grows by one and connect runs again, with a new call id if this
\* side initiates, exactly when the new count is at most 3.
C7_RetryableEnding ==
    \A i \in 1..Len(log) :
        (log[i].kind = "ended" /\ Retryable(log[i].reason)) =>
            /\ log[i].after = log[i].before + 1
            /\ RetriedAfter(i) <=> log[i].after <= 3
            /\ (RetriedAfter(i) /\ log[i + 1].callId # 0) =>
                   /\ log[i + 1].callId # log[i].callId
                   /\ log[i + 1].callId < nextCallId

\* the third failure of a Member, retried with a new PeerCall
C7_Witness ==
    \E i \in 1..Len(log) :
        /\ log[i].kind = "ended" /\ Retryable(log[i].reason)
        /\ log[i].after = 3 /\ RetriedAfter(i) /\ log[i + 1].callId # 0

\* C8: when a PeerCall ends with a reason of the no-retry set, retry_count is
\* unchanged, connect does not run again, and the Member stays in the member map.
C8_NoRetryEnding ==
    \A i \in 1..Len(log) :
        (log[i].kind = "ended" /\ log[i].reason \in ErrorCodesWithoutRetry) =>
            /\ log[i].after = log[i].before
            /\ ~RetriedAfter(i)
            /\ log[i].key \in DOMAIN members
            /\ members[log[i].key].retryCount >= log[i].after

\* a PeerCall that lost a glare ended with "replaced"
C8_Witness ==
    \E i \in 1..Len(log) :
        /\ log[i].kind = "ended" /\ log[i].reason = "replaced"
        /\ log[i].key \in DOMAIN members
        /\ members[log[i].key].peerCall.state = "none"

\* C9: a Member never holds a PeerCall in state Ended: the reference is
\* cleared as soon as the PeerCall reports Ended.
C9_NoEndedPeerCall ==
    \A k \in DOMAIN members : members[k].peerCall.state \in LiveCallStates \cup {"none"}

\* a PeerCall ended in the last step, and the Member holds none
C9_Witness ==
    \E i \in 1..Len(log) :
        /\ log[i].kind = "ended" /\ log[i].callId # 0
        /\ i = Len(log)
        /\ log[i].key \in DOMAIN members
        /\ members[log[i].key].peerCall = NoPeerCall

\* C10: handleDeviceMessage hands the message to the Member of (user_id,
\* device_id) exactly when that Member exists and the message's
\* sender_session_id is the Member's session id; otherwise the message is
\* appended to the buffer of that key and handed to no Member.
C10_DeliverOrBuffer ==
    [][received' # <<>> =>
        LET k == received'[1].key
            msg == received'[1].msg
        IN IF k \in DOMAIN members /\ msg.sender_session_id = members[k].sessionId
           THEN /\ delivered' = [delivered EXCEPT ![k] = Append(@, Delivery(msg, FALSE))]
                /\ buffered' = buffered
           ELSE /\ buffered' = [buffered EXCEPT ![k] = Append(@, msg)]
                /\ delivered' = delivered]_vars

\* the last message was buffered because the Member of its key has another
\* session, after an earlier message had been handed to that Member
C10_Witness ==
    /\ received # <<>>
    /\ received[1].key \in DOMAIN members
    /\ received[1].msg.sender_session_id # members[received[1].key].sessionId
    /\ Len(delivered[received[1].key]) > 0
    /\ Len(buffered[received[1].key]) > 0
    /\ buffered[received[1].key][Len(buffered[received[1].key])] = received[1].msg

\* the messages of a sequence that carry the session id of the Member of
\* key k in the Member map ms, and the others
Matching(msgs, ms, k) ==
    SelectSeq(msgs, LAMBDA m : k \in DOMAIN ms /\ m.sender_session_id = ms[k].sessionId)
NotMatching(msgs, ms, k) ==
    SelectSeq(msgs, LAMBDA m : ~(k \in DOMAIN ms /\ m.sender_session_id = ms[k].sessionId))

\* C11: a step of the sync that is not a device message hands to the Member
\* of each key, once and in arrival order, exactly the buffered messages that
\* carry the session id of the Member the key has after the step, and keeps
\* the others buffered; no message is both handed over and kept, and none is
\* handed over twice.
C11_FlushedOnceInOrder ==
    [][/\ received' = <<>> =>
            \A k \in DOMAIN buffered :
                LET ms == Matching(buffered[k], members', k)
                IN /\ delivered'[k] =
                          delivered[k] \o [i \in 1..Len(ms) |-> Delivery(ms[i], TRUE)]
                   /\ buffered'[k] = NotMatching(buffered[k], members', k)
       /\ \A k \in DOMAIN buffered :
            /\ \A i, j \in 1..Len(delivered'[k]) :
                   delivered'[k][i].id = delivered'[k][j].id => i = j
            /\ \A i \in 1..Len(delivered'[k]), j \in 1..Len(buffered'[k]) :
                   delivered'[k][i].id # buffered'[k][j].id]_vars

\* two buffered messages were handed to the Member of their key, in arrival
\* order, while a message of the other session stays buffered
C11_Witness ==
    /\ received = <<>>
    /\ \E k \in DOMAIN members :
        /\ Len(delivered[k]) = 2
        /\ delivered[k][1].flushed /\ delivered[k][2].flushed
        /\ delivered[k][1].id < delivered[k][2].id
        /\ Len(buffered[k]) = 1
        /\ buffered[k][1].sender_session_id # members[k].sessionId

\* C12: the messages of one (user, device, session) reach
\* Member.handleDeviceMessage in the order in which they were passed to
\* GroupCall.handleDeviceMessage.
C12_ArrivalOrder ==
    \A k \in DOMAIN delivered :
        \A i, j \in 1..Len(delivered[k]) :
            (i < j /\ delivered[k][i].sender_session_id = delivered[k][j].sender_session_id)
                => delivered[k][i].id < delivered[k][j].id

\* a message that was buffered and flushed, then one of the same session
\* handed over directly, with a message of the other session in between
C12_Witness ==
    \E k \in DOMAIN members :
        /\ Len(delivered[k]) = 2
        /\ delivered[k][1].flushed /\ ~delivered[k][2].flushed
        /\ delivered[k][1].sender_session_id = delivered[k][2].sender_session_id
        /\ delivered[k][1].id = 1 /\ delivered[k][2].id = 3

C15_OldSessionDropped ==
    [][received' # <<>> =>
        LET k == received'[1].key
            msg == received'[1].msg
        IN (/\ k \in DOMAIN members
            /\ members[k].rotatedFrom = msg.sender_session_id
            /\ members[k].sessionId # msg.sender_session_id)
               => (delivered' = delivered /\ buffered' = buffered)]_vars

\* C16: a message whose dest_session_id is not the own session id, handed to
\* a Member, has no effect: the Member and its PeerCall are as before, no
\* PeerCall is created or ended, connect does not run, nothing is sent.
C16_OtherDestinationDropped ==
    [][received' # <<>> =>
        LET k == received'[1].key
            msg == received'[1].msg
        IN (/\ msg.dest_session_id # OwnSessionId
            /\ k \in DOMAIN members
            /\ msg.sender_session_id = members[k].sessionId)
               => /\ delivered'[k] = Append(delivered[k], Delivery(msg, FALSE))
                  /\ members' = members
                  /\ log' = <<>>
                  /\ sent' = <<>>
                  /\ nextCallId' = nextCallId]_vars

\* an Invite for another session of this client was handed to a Member that
\* holds no PeerCall, and a Hangup for it to a Member that holds one
C16_Witness ==
    /\ received # <<>>
    /\ received[1].msg.dest_session_id # OwnSessionId
    /\ received[1].key \in DOMAIN members
    /\ Len(delivered[received[1].key]) > 0
    /\ delivered[received[1].key][Len(delivered[received[1].key])].id = received[1].msg.id
    /\ \/ /\ received[1].msg.type = "m.call.invite"
          /\ members[received[1].key].peerCall.state = "none"
       \/ /\ received[1].msg.type = "m.call.hangup"
          /\ members[received[1].key].peerCall.state # "none"

\* C17: the messages buffered for one (user_id, device_id) are never more
\* than 64.
C17_BufferAtMost64 ==
    \A k \in DOMAIN buffered : Len(buffered[k]) <= 64

StateEdges ==
    {<<"fledgling", "creating">>, <<"creating", "created">>, <<"created", "joining">>,
     <<"joining", "joined">>, <<"joined", "created">>}

\* C18: every change of the state of the GroupCall is one of Fledgling ->
\* Creating, Creating -> Created, Created -> Joining, Joining -> Joined,
\* Joined -> Created.
C18_StateEdges ==
    [][state' # state => <<state, state'>> \in StateEdges]_vars

\* the own device was seen in m.devices by the handler that made this log
OwnSeen(l) == \E i \in 1..Len(l) : l[i].kind = "own"

\* C19: the step of join() that follows its TURN settings leaves the state
\* Joining; the state becomes Joined only from Joining and only in a step in
\* which updateMembership saw the own device in the own membership event; and
\* every such step taken in state Joining ends in state Joined.
C19_JoinedByOwnMembership ==
    [][/\ (\E i \in DOMAIN joinTask : joinTask[i] = "turn" /\ joinTask'[i] = "send")
            => state' = "joining"
       /\ (state # "joined" /\ state' = "joined") => (state = "joining" /\ OwnSeen(log'))
       /\ (state = "joining" /\ OwnSeen(log')) => state' = "joined"]_vars

\* the own membership was just observed and the call is Joined while the
\* request of join() is still in flight
C19_Witness ==
    /\ state = "joined"
    /\ OwnSeen(log)
    /\ \E i \in DOMAIN joinTask : joinTask[i] = "send"

\* C20: when leave() completes while the server lists this device in the
\* own member state (a join() sent it), the server no longer lists it.
C20_LeaveRemovesOwnDevice ==
    [][(~afterLeave /\ afterLeave' /\ ownOnServer = "yes") => ownOnServer' = "no"]_vars

\* C21: when leave() completes without a failed request, after a join() that
\* sent the own membership, with intent Ring and no Member, a terminate state
\* event was sent by this leave().
C21_RingLeaveTerminates ==
    [][(/\ ~afterLeave /\ afterLeave'
        /\ ownOnServer = "yes" /\ ownOnServer' # "unknown"
        /\ intent = "m.ring" /\ DOMAIN members = {})
       => leaveTask = "terminate"]_vars

\* C22: the local media the GroupCall holds in its joined data has not been
\* disposed.
C22_SharedMediaNotDisposed ==
    joinedData # 0 => joinedData \notin disposed

\* C23: every message a handler hands to sendToDevice carries the conference
\* id, the own device id as device_id and party_id, the own session id as
\* sender_session_id and, as dest_session_id, the session id held by the
\* Member of the (user_id, device_id) it is addressed to.
C23_EnvelopeIsCurrent ==
    \A i \in 1..Len(sent) :
        LET msg == sent[i]
            k == <<msg.toUser, msg.toDevice>>
        IN /\ msg.conf_id = ConfId
           /\ msg.device_id = OwnDeviceId
           /\ msg.party_id = OwnDeviceId
           /\ msg.sender_session_id = OwnSessionId
           /\ k \in DOMAIN members
           /\ msg.dest_session_id = members[k].sessionId

\* a message was sent to a device whose session id had changed
C23_Witness ==
    \E i \in 1..Len(sent) :
        LET k == <<sent[i].toUser, sent[i].toDevice>>
        IN /\ k \in DOMAIN members
           /\ members[k].rotatedFrom # "none"
           /\ sent[i].dest_session_id = members[k].sessionId

\* C24: every message handed to sendToDevice has passed the encrypter: it is
\* sent as an m.room.encrypted event.
C24_SentEncrypted ==
    \A i \in 1..Len(sent) : sent[i].type = "m.room.encrypted"

\* C25: a member key stands for one (user_id, device_id) pair only, so the
\* map of Members, which holds one Member per key, holds at most one Member
\* per pair and never one Member for two pairs.
C25_OnePairPerKey ==
    \A key \in DOMAIN keyed : Cardinality(keyed[key]) = 1

\* two pairs that differ only in where a comma or a quote stands have got
\* their keys
C25_Witness ==
    /\ Cardinality(DOMAIN keyed) = 2
    /\ \E p \in KeyedPairs, q \in KeyedPairs :
        /\ p # q
        /\ p[1] \o <<CommaChar>> \o p[2] = q[1] \o <<CommaChar>> \o q[2]

\* C26: a Candidates message addressed to this session is not lost when it
\* arrives: after the step it is in the buffer of the GroupCall for its
\* device, or the Member has a PeerCall that was given it.
C26_EarlyCandidatesKept ==
    [][\A i \in 1..Len(received') :
        LET k == received'[i].key
            msg == received'[i].msg
        IN (msg.type = "m.call.candidates" /\ msg.dest_session_id = OwnSessionId)
           => \/ \E j \in 1..Len(buffered'[k]) : buffered'[k][j] = msg
              \/ (k \in DOMAIN members' /\ members'[k].peerCall.state # "none")]_vars

\* C27: when an Invite with a lower call_id reaches a Member whose PeerCall
\* is an outgoing call that has not been answered, that call ends with reason
\* Replaced and the Member goes on with a PeerCall for the call_id of the
\* Invite.
C27_GlareLoserTakesInvite ==
    [][\A i \in 1..Len(received') :
        LET k == received'[i].key
            msg == received'[i].msg
        IN (/\ msg.type = "m.call.invite"
            /\ msg.dest_session_id = OwnSessionId
            /\ k \in DOMAIN members
            /\ members[k].sessionId = msg.sender_session_id
            /\ members[k].peerCall.state \in {"CreateOffer", "InviteSent"}
            /\ msg.call_id < members[k].peerCall.callId)
           => /\ \E j \in 1..Len(log') :
                    /\ log'[j].kind = "ended"
                    /\ log'[j].key = k
                    /\ log'[j].reason = "replaced"
              /\ k \in DOMAIN members'
              /\ members'[k].peerCall.state # "none"
              /\ members'[k].peerCall.callId = msg.call_id]_vars

\* C28: trackRoom on an untracked encrypted room leaves every member whose
\* membership is join with an identity that has the room id, makes a new
\* identity with the room id alone and status outdated, and leaves the
\* identity of every other user as it was (none stays none); on a tracked or
\* unencrypted room it changes nothing.
C28_TrackRoomWritesJoined ==
    [][tracker'.op = "trackRoom"
       => IF ~tracker.isTrackingMembers /\ tracker.isEncrypted
          THEN /\ tracker'.isTrackingMembers
               /\ \A u \in TrackerUserIds :
                    IF u \in DOMAIN tracker.memberList /\ tracker.memberList[u] = "join"
                    THEN /\ u \in DOMAIN tracker'.userIdentities
                         /\ InSeq(TrackedRoomId, tracker'.userIdentities[u].roomIds)
                         /\ u \notin DOMAIN tracker.userIdentities
                            => tracker'.userIdentities[u] =
                                   [userId |-> u, roomIds |-> <<TrackedRoomId>>,
                                    deviceTrackingStatus |-> TRACKING_STATUS_OUTDATED]
                    ELSE /\ (u \in DOMAIN tracker'.userIdentities)
                                = (u \in DOMAIN tracker.userIdentities)
                         /\ u \in DOMAIN tracker.userIdentities
                            => tracker'.userIdentities[u] = tracker.userIdentities[u]
          ELSE /\ tracker'.userIdentities = tracker.userIdentities
               /\ tracker'.isTrackingMembers = tracker.isTrackingMembers]_vars

\* trackRoom has run on an untracked encrypted room with a joined and an
\* invited member: the joined one has an identity, the invited one has none
C28_Witness ==
    /\ tracker.op = "trackRoom"
    /\ tracker.isTrackingMembers
    /\ \E u \in DOMAIN tracker.memberList, v \in DOMAIN tracker.memberList :
        /\ tracker.memberList[u] = "join"
        /\ u \in DOMAIN tracker.userIdentities
        /\ tracker.userIdentities[u].roomIds = <<TrackedRoomId>>
        /\ tracker.memberList[v] = "invite"
        /\ v \notin DOMAIN tracker.userIdentities

\* C29: a key query whose response has, for a device that is stored, another
\* ed25519 key leaves the stored identity of the device as it was and returns
\* that identity to the caller.
C29_ChangedKeyIgnored ==
    [][tracker'.op = "devicesForRoomMembers"
       => \A i \in 1..Len(tracker'.response) :
            \A section \in SeqRange(tracker'.response[i].deviceKeys) :
                LET k == <<section.user_id, section.device_id>> IN
                (k \in DOMAIN tracker.deviceIdentities
                 /\ tracker.deviceIdentities[k].ed25519Key # section.ed25519)
                => /\ k \in DOMAIN tracker'.deviceIdentities
                   /\ tracker'.deviceIdentities[k] = tracker.deviceIdentities[k]
                   /\ tracker.deviceIdentities[k] \in tracker'.returned]_vars

\* C30: writeSync returns a copy whose fields differ from the summary's
\* current data, and writes that copy, exactly when a field changes (a
\* membership other than the current one always does); otherwise it returns
\* and writes nothing; the fields of the current data stay as they were.
C30_WriteSyncIffChanged ==
    [][summary'.op = "writeSync"
       => /\ Serialize(summary'.data) = Serialize(summary.data)
          /\ (summary'.ret # Null) <=> (summary'.written # Null)
          /\ summary'.ret # Null
                => /\ summary'.written = Some(Serialize(summary'.ret[1]))
                   /\ Serialize(summary'.ret[1]) # Serialize(summary.data)
          /\ Some(summary'.membership) # summary.data.membership
                => /\ summary'.ret # Null
                   /\ summary'.ret[1].membership = Some(summary'.membership)]_vars

\* C31: a step in which the sync's own membership stops listing the own
\* device (or is removed) while the call has joined (Joining or Joined) ends
\* in state Created, without joined data, with the local media of the joined
\* data disposed and with no Member holding a PeerCall.
C31_OwnDeviceGoneDisconnects ==
    [][(ownInStorage /\ ~ownInStorage' /\ state \in {"joining", "joined"})
       => /\ state' = "created"
          /\ joinedData' = 0
          /\ (joinedData # 0 => joinedData \in disposed')
          /\ \A k \in DOMAIN members' : members'[k].peerCall.state = "none"]_vars

\* C32: when join() resumes after its member state event request and the
\* joined data it made is no longer held (a leave() or a local disconnect
\* cleared it while join() was suspended), the continuation changes no
\* Member, runs no connect and leaves the call without joined data.
C32_CancelledJoinHasNoEffect ==
    [][\A i \in DOMAIN joinTask :
          (joinTask[i] = "send" /\ joinTask'[i] = "done" /\ joinedData = 0)
          => /\ members' = members
             /\ log' = <<>>
             /\ joinedData' = 0]_vars

\* C33: between the calls of the sync, no message buffered for a member key
\* carries the session id of the Member installed under that key.
C33_NoBufferedForCurrentSession ==
    \A k \in DOMAIN members :
        \A i \in 1..Len(buffered[k]) :
            buffered[k][i].sender_session_id # SessionIdOf(Cur, k)

\* a Member was given a message from the buffer when its membership arrived,
\* and a message of another session of its device is still buffered
C33_Witness ==
    \E k \in DOMAIN members :
        /\ \E i \in 1..Len(delivered[k]) :
            /\ delivered[k][i].flushed
            /\ delivered[k][i].sender_session_id = members[k].sessionId
        /\ buffered[k] # <<>>

\* Member.connect ran for key k in the handler that made the log l, called by
\* the GroupCall (not as a retry)
ConnectedIn(l, k) ==
    \E i \in 1..Len(l) : l[i].kind = "connect" /\ l[i].key = k /\ l[i].reason = "first"

C36_OverlappingJoinIsNoOp ==
    [][\A i \in DOMAIN joinTask :
          /\ (joinTask[i] = "turn" /\ joinTask'[i] = "send" /\ joinedData # 0)
             => /\ joinedData' = joinedData
                /\ state' = state
          /\ (joinTask[i] = "send" /\ joinTask'[i] = "done"
              /\ joinedData # 0 /\ joinedData # i)
             => log' = <<>>]_vars

\* C37: while the GroupCall holds no joined data, no Member holds a PeerCall
\* (none is created for an Invite, and none is answered).
C37_NoPeerCallBeforeJoin ==
    joinedData = 0 => \A k \in DOMAIN members : members[k].peerCall = NoPeerCall

\* C38: whatever own membership event updateMembership is called with in
\* state Joining, the state becomes Joined only if the event lists the own
\* device with the own current session id.
C38_JoinedByCurrentSession ==
    \A devices \in DeviceLists(OwnUserId) :
        (state = "joining" /\ UpdateMembershipOp(Cur, OwnUserId, devices).state = "joined")
        => \E i \in 1..Len(devices) :
              devices[i] = [device_id |-> OwnDeviceId, session_id |-> OwnSessionId]

\* C40: the data writeSync returns for a response with a summary section has
\* the section's m.joined_member_count as joinCount and its
\* m.invited_member_count as inviteCount, each when it is an integer, and the
\* value the summary had otherwise.
C40_CountsFromSummary ==
    [][(summary'.op = "writeSync" /\ summary'.roomResponse.summary # Null)
       => LET s == summary'.roomResponse.summary[1]
              data == IF summary'.ret # Null THEN summary'.ret[1] ELSE summary'.data
          IN /\ data.joinCount = IF s.joined_member_count # Null
                                 THEN s.joined_member_count[1]
                                 ELSE summary.data.joinCount
             /\ data.inviteCount = IF s.invited_member_count # Null
                                   THEN s.invited_member_count[1]
                                   ELSE summary.data.inviteCount]_vars

\* C39: whenever the own device index is set and the own device is in the
\* m.devices list last built by _createJoinPayload or observed by
\* updateMembership, that list has the own device exactly once and the index
\* is its zero-based position there; so the value set when the payload is
\* built is the value set when the same list comes back.
C39_DeviceIndexIsPosition ==
    LET own == {i \in 1..Len(ownIndex.content) :
                    ownIndex.content[i].device_id = OwnDeviceId}
    IN /\ ownIndex.op = "createJoinPayload" => own # {}
       /\ (ownIndex.op \in {"createJoinPayload", "updateMembership"} /\ own # {})
          => /\ Cardinality(own) = 1
             /\ \A i \in own : ownIndex.deviceIndex = Some(i - 1)

====
